---- MODULE Spec2Model ----
(***************************************************************************)
(* ObjectIR runtime: type-name normalisation, method resolution, the       *)
(* instruction executor's dispatch loop, method invocation and the plugin  *)
(* host functions that replace method bodies.                              *)
(*                                                                         *)
(* A std::string is modelled as a tuple of one-character strings, so that  *)
(* trimming, lower-casing, dot-splitting and decimal parsing are computed  *)
(* character by character as the code does.                                *)
(***************************************************************************)
EXTENDS Integers, Sequences, FiniteSets, TLC

VARIABLES
    classes,        \* the Class objects of the loaded module, by class id
    registry,       \* VirtualMachine::_classes : name -> class id
    methods,        \* the Method objects, by method id
    heap,           \* the Objects created so far, by object id
    callStack,      \* the nested ExecuteInstructions activations, outermost first
    contextStack,   \* VirtualMachine::_contextStack
    currentContext, \* VirtualMachine::_currentContext
    output,         \* the strings handed to VirtualMachine::WriteOutput, in order
    hostResult,     \* what the last host-level call returned or threw
    lastError,      \* the plugin API's thread-local g_lastError
    hostCalls,      \* number of calls the host has made into the VM and the plugin API
    installed,      \* history: per method, the list the last successful replace installed
    fetched,        \* history: the instruction the last dispatch step read
    lastInvoke,     \* history: the last method invocation that was started
    lastReturn,     \* history: the last invocation of an instruction body that returned
    lastDispatch,   \* history: the arguments the last call/callvirt handed over
    lastCall,       \* history: the last call/callvirt that completed
    lastBranch,     \* history: the last branch instruction dispatched
    lastExec,       \* history: the last instruction dispatched and the stack depths
    resolveIn,      \* the input of the resolution under test
    resolveOut,     \* its outcome
    plugins,        \* VirtualMachine::_plugins
    openCount,      \* per plugin library, the handles dlopen gave out and dlclose
                    \* has not taken back
    pluginLog,      \* history: the loader calls and the calls into plugin code
    destroyed,      \* the VirtualMachine destructor has run
    registered,     \* the classes passed to RegisterClass, in call order
    typeName,       \* a type name as written in a module or a request
    normalized,     \* NormalizeTypeName of typeName, then of each result in turn
    exitStatus,     \* the driver's process: whether main returned, its code, stderr
    operands,       \* the left and right Value an operation is applied to
    evaluated       \* the operation applied to them last and its outcome

vars == <<classes, registry, methods, heap, callStack, contextStack, currentContext,
          output, hostResult, lastError, hostCalls, installed, fetched, lastInvoke,
          lastReturn, lastDispatch, lastCall, lastBranch, lastExec, resolveIn,
          resolveOut, plugins, openCount, pluginLog, destroyed,
          registered, typeName, normalized, exitStatus, operands, evaluated>>

Range(seq) == {seq[i] : i \in DOMAIN seq}

\* a local: Body applied to the value v, which is computed once
With(v, Body(_)) == Body(v)

(***************************************************************************)
(* String literals.                                                        *)
(***************************************************************************)
s_empty == <<>>
s_void == <<"v", "o", "i", "d">>
s_system_void == <<"s", "y", "s", "t", "e", "m", ".", "v", "o", "i", "d">>
s_string == <<"s", "t", "r", "i", "n", "g">>
s_system_string == <<"s", "y", "s", "t", "e", "m", ".", "s", "t", "r", "i", "n", "g">>
s_bool == <<"b", "o", "o", "l">>
s_boolean == <<"b", "o", "o", "l", "e", "a", "n">>
s_system_boolean == <<"s", "y", "s", "t", "e", "m", ".", "b", "o", "o", "l", "e", "a", "n">>
s_int32 == <<"i", "n", "t", "3", "2">>
s_int == <<"i", "n", "t">>
s_system_int32 == <<"s", "y", "s", "t", "e", "m", ".", "i", "n", "t", "3", "2">>
s_int64 == <<"i", "n", "t", "6", "4">>
s_long == <<"l", "o", "n", "g">>
s_system_int64 == <<"s", "y", "s", "t", "e", "m", ".", "i", "n", "t", "6", "4">>
s_single == <<"s", "i", "n", "g", "l", "e">>
s_system_single == <<"s", "y", "s", "t", "e", "m", ".", "s", "i", "n", "g", "l", "e">>
s_float == <<"f", "l", "o", "a", "t">>
s_float32 == <<"f", "l", "o", "a", "t", "3", "2">>
s_double == <<"d", "o", "u", "b", "l", "e">>
s_system_double == <<"s", "y", "s", "t", "e", "m", ".", "d", "o", "u", "b", "l", "e">>
s_float64 == <<"f", "l", "o", "a", "t", "6", "4">>
s_byte == <<"b", "y", "t", "e">>
s_system_byte == <<"s", "y", "s", "t", "e", "m", ".", "b", "y", "t", "e">>
s_uint8 == <<"u", "i", "n", "t", "8">>
s_object == <<"o", "b", "j", "e", "c", "t">>
s_system_object == <<"s", "y", "s", "t", "e", "m", ".", "o", "b", "j", "e", "c", "t">>
s_nop == <<"n", "o", "p">>
s_dup == <<"d", "u", "p">>
s_pop == <<"p", "o", "p">>
s_ldarg == <<"l", "d", "a", "r", "g">>
s_ldloc == <<"l", "d", "l", "o", "c">>
s_ldfld == <<"l", "d", "f", "l", "d">>
s_ldcon == <<"l", "d", "c", "o", "n">>
s_ldc == <<"l", "d", "c">>
s_ldstr == <<"l", "d", "s", "t", "r">>
s_ldi4 == <<"l", "d", "i", "4">>
s_ldi32 == <<"l", "d", "i", "3", "2">>
s_ldc_i4 == <<"l", "d", "c", ".", "i", "4">>
s_ldi8 == <<"l", "d", "i", "8">>
s_ldi64 == <<"l", "d", "i", "6", "4">>
s_ldc_i8 == <<"l", "d", "c", ".", "i", "8">>
s_ldr4 == <<"l", "d", "r", "4">>
s_ldc_r4 == <<"l", "d", "c", ".", "r", "4">>
s_ldr8 == <<"l", "d", "r", "8">>
s_ldc_r8 == <<"l", "d", "c", ".", "r", "8">>
s_ldtrue == <<"l", "d", "t", "r", "u", "e">>
s_ldfalse == <<"l", "d", "f", "a", "l", "s", "e">>
s_ldnull == <<"l", "d", "n", "u", "l", "l">>
s_stloc == <<"s", "t", "l", "o", "c">>
s_stfld == <<"s", "t", "f", "l", "d">>
s_starg == <<"s", "t", "a", "r", "g">>
s_add == <<"a", "d", "d">>
s_sub == <<"s", "u", "b">>
s_mul == <<"m", "u", "l">>
s_div == <<"d", "i", "v">>
s_rem == <<"r", "e", "m">>
s_neg == <<"n", "e", "g">>
s_ceq == <<"c", "e", "q">>
s_cne == <<"c", "n", "e">>
s_clt == <<"c", "l", "t">>
s_cle == <<"c", "l", "e">>
s_cgt == <<"c", "g", "t">>
s_cge == <<"c", "g", "e">>
s_ret == <<"r", "e", "t">>
s_br == <<"b", "r">>
s_brtrue == <<"b", "r", "t", "r", "u", "e">>
s_brfalse == <<"b", "r", "f", "a", "l", "s", "e">>
s_beq == <<"b", "e", "q">>
s_beq_s == <<"b", "e", "q", ".", "s">>
s_bne == <<"b", "n", "e">>
s_bne_un == <<"b", "n", "e", ".", "u", "n">>
s_bne_s == <<"b", "n", "e", ".", "s">>
s_bgt == <<"b", "g", "t">>
s_bgt_s == <<"b", "g", "t", ".", "s">>
s_bgt_un == <<"b", "g", "t", ".", "u", "n">>
s_blt == <<"b", "l", "t">>
s_blt_s == <<"b", "l", "t", ".", "s">>
s_blt_un == <<"b", "l", "t", ".", "u", "n">>
s_bge == <<"b", "g", "e">>
s_bge_s == <<"b", "g", "e", ".", "s">>
s_bge_un == <<"b", "g", "e", ".", "u", "n">>
s_ble == <<"b", "l", "e">>
s_ble_s == <<"b", "l", "e", ".", "s">>
s_ble_un == <<"b", "l", "e", ".", "u", "n">>
s_if == <<"i", "f">>
s_newobj == <<"n", "e", "w", "o", "b", "j">>
s_call == <<"c", "a", "l", "l">>
s_callvirt == <<"c", "a", "l", "l", "v", "i", "r", "t">>
s_castclass == <<"c", "a", "s", "t", "c", "l", "a", "s", "s">>
s_isinst == <<"i", "s", "i", "n", "s", "t">>
s_newarr == <<"n", "e", "w", "a", "r", "r">>
s_ldelem == <<"l", "d", "e", "l", "e", "m">>
s_stelem == <<"s", "t", "e", "l", "e", "m">>
s_ldlen == <<"l", "d", "l", "e", "n">>
s_break == <<"b", "r", "e", "a", "k">>
s_continue == <<"c", "o", "n", "t", "i", "n", "u", "e">>
s_throw == <<"t", "h", "r", "o", "w">>
s_while == <<"w", "h", "i", "l", "e">>
s_System_String == <<"S", "y", "s", "t", "e", "m", ".", "S", "t", "r", "i", "n", "g">>
s_System_Int32 == <<"S", "y", "s", "t", "e", "m", ".", "I", "n", "t", "3", "2">>
s_System_Void == <<"S", "y", "s", "t", "e", "m", ".", "V", "o", "i", "d">>
s_System_Console == <<"S", "y", "s", "t", "e", "m", ".", "C", "o", "n", "s", "o", "l", "e">>
s_WriteLine == <<"W", "r", "i", "t", "e", "L", "i", "n", "e">>
s_Int == <<"I", "n", "t">>
s_Foo == <<"F", "o", "o">>
s_NS == <<"N", "S">>
s_NS_Foo == <<"N", "S", ".", "F", "o", "o">>
s_Program == <<"P", "r", "o", "g", "r", "a", "m">>
s_Base == <<"B", "a", "s", "e">>
s_Derived == <<"D", "e", "r", "i", "v", "e", "d">>
s_Main == <<"M", "a", "i", "n">>
s_Patch == <<"P", "a", "t", "c", "h">>
s_Work == <<"W", "o", "r", "k">>
s_F == <<"F">>
s_G == <<"G">>
s_H == <<"H">>
s_K == <<"K">>
s_V == <<"V">>
s_Inst == <<"I", "n", "s", "t">>
s_a == <<"a">>
s_b == <<"b">>
s_this == <<"t", "h", "i", "s">>
s_jmp == <<"j", "m", "p">>
s_old == <<"o", "l", "d">>
s_new == <<"n", "e", "w">>
s_end == <<"e", "n", "d">>
s_top == <<"t", "o", "p">>
s_0 == <<"0">>
s_1 == <<"1">>
s_2 == <<"2">>
s_3 == <<"3">>
s_5 == <<"5">>
s_9 == <<"9">>
s_1x == <<"1", "x">>
s_x == <<"x">>
s_Own == <<"O","w","n">>
s_Nope == <<"N","o","p","e">>
s_11 == <<"1","1">>
s_stack == <<"s", "t", "a", "c", "k">>
s_binary == <<"b", "i", "n", "a", "r", "y">>
s_expression == <<"e", "x", "p", "r", "e", "s", "s", "i", "o", "n">>
s_i == <<"i">>
s_f == <<"f">>
s_g == <<"g">>
s_Set == <<"S", "e", "t">>
s_Get == <<"G", "e", "t">>
s_B == <<"B">>
s_Loop == <<"L", "o", "o", "p">>
s_10 == <<"1", "0">>
s_42 == <<"4", "2">>
s_IShape == <<"I", "S", "h", "a", "p", "e">>
s_INamed == <<"I", "N", "a", "m", "e", "d">>
s_Arith == <<"A", "r", "i", "t", "h">>
s_NegString == <<"N", "e", "g", "S", "t", "r", "i", "n", "g">>
s_Count == <<"C", "o", "u", "n", "t">>
s_Fields == <<"F", "i", "e", "l", "d", "s">>

s_LoadStatic == <<"L", "o", "a", "d", "S", "t", "a", "t", "i", "c">>

s_StoreStatic == <<"S", "t", "o", "r", "e", "S", "t", "a", "t", "i", "c">>

s_Lines == <<"L", "i", "n", "e", "s">>

s_7 == <<"7">>

s_Quotient == <<"Q", "u", "o", "t", "i", "e", "n", "t">>

s_Raise == <<"R", "a", "i", "s", "e">>
s_none == <<"n", "o", "n", "e">>
s_Stub == <<"S", "t", "u", "b">>
s_Jump == <<"J", "u", "m", "p">>
s_Main_Main == <<"M", "a", "i", "n", ".", "M", "a", "i", "n">>
s_Escape == <<"E", "s", "c", "a", "p", "e">>
s_Again == <<"A", "g", "a", "i", "n">>
s_Crossing == <<"C", "r", "o", "s", "s", "i", "n", "g">>
s_Guarded == <<"G", "u", "a", "r", "d", "e", "d">>
s_Nested == <<"N", "e", "s", "t", "e", "d">>
s_Self == <<"S", "e", "l", "f">>

(***************************************************************************)
(* objectir_type_names.hpp                                                 *)
(***************************************************************************)
Uppers == <<"A","B","C","D","E","F","G","H","I","J","K","L","M",
            "N","O","P","Q","R","S","T","U","V","W","X","Y","Z">>

Lowers == <<"a","b","c","d","e","f","g","h","i","j","k","l","m",
            "n","o","p","q","r","s","t","u","v","w","x","y","z">>

\* std::tolower on one character
LowerChar(c) ==
    IF \E i \in DOMAIN Uppers : Uppers[i] = c
    THEN Lowers[CHOOSE i \in DOMAIN Uppers : Uppers[i] = c]
    ELSE c

\* std::isspace in the "C" locale
IsSpace(c) == c \in {" ", "\t", "\n", "\r", "\f"}

SetMin(S) == CHOOSE x \in S : \A y \in S : x <= y

SetMax(S) == CHOOSE x \in S : \A y \in S : y <= x

Trim(input) ==
    LET solid == {i \in DOMAIN input : ~IsSpace(input[i])}
    IN  IF solid = {} THEN <<>>
        ELSE SubSeq(input, SetMin(solid), SetMax(solid))

ToLowerAscii(input) == [i \in DOMAIN input |-> LowerChar(input[i])]

CanonicalAliasMutant(trimmed, lower) ==
    IF lower \in {s_system_int32, s_int32} THEN s_int
    ELSE IF lower = s_int THEN s_int32
    ELSE trimmed

\* the alias table of NormalizeTypeName, applied to the trimmed name and its lower case
CanonicalAlias(trimmed, lower) ==
        IF trimmed = <<>> THEN trimmed
        ELSE IF lower \in {s_system_void, s_void} THEN s_void
        ELSE IF lower \in {s_system_string, s_string} THEN s_string
        ELSE IF lower \in {s_system_boolean, s_bool, s_boolean} THEN s_bool
        ELSE IF lower \in {s_system_int32, s_int32, s_int} THEN s_int32
        ELSE IF lower \in {s_system_int64, s_int64, s_long} THEN s_int64
        ELSE IF lower \in {s_system_single, s_single, s_float, s_float32} THEN s_float32
        ELSE IF lower \in {s_system_double, s_double, s_float64} THEN s_float64
        ELSE IF lower \in {s_system_byte, s_byte, s_uint8} THEN s_uint8
        ELSE IF lower \in {s_system_object, s_object} THEN s_object
        ELSE trimmed

NormalizeTypeName(rawName) ==
    With(Trim(rawName), LAMBDA trimmed : CanonicalAlias(trimmed, ToLowerAscii(trimmed)))

NormalizeTypeNames(rawNames) == [i \in DOMAIN rawNames |-> NormalizeTypeName(rawNames[i])]

\* std::string::find_last_of(c): the last index (1-based) holding c, 0 for npos
FindLastOf(s, c) ==
    LET hits == {i \in DOMAIN s : s[i] = c}
    IN  IF hits = {} THEN 0 ELSE SetMax(hits)

\* s.substr(pos) with a 1-based first index
SubstrFrom(s, first) == SubSeq(s, first, Len(s))

\* the trailing simple name of a possibly qualified name
SimpleNameOf(rawName) ==
    LET dot == FindLastOf(rawName, ".")
    IN  IF dot = 0 THEN rawName ELSE SubstrFrom(rawName, dot + 1)

\* cls is a Class record (name, namespace)
GetQualifiedClassName(cls) ==
    IF cls.namespace = <<>> THEN cls.name
    ELSE cls.namespace \o <<".">> \o SimpleNameOf(cls.name)

NoClass == 0

\* TypeReference: a primitive, or a reference to a class (NoClass for a null ClassRef)
PrimType(p) == [isPrimitive |-> TRUE, primitiveType |-> p, classType |-> NoClass]

ClassType(c) == [isPrimitive |-> FALSE, primitiveType |-> "Void", classType |-> c]

CanonicalTypeName(type, clss) ==
    IF type.isPrimitive
    THEN CASE type.primitiveType = "Int32"   -> s_int32
           [] type.primitiveType = "Int64"   -> s_int64
           [] type.primitiveType = "Float32" -> s_float32
           [] type.primitiveType = "Float64" -> s_float64
           [] type.primitiveType = "Bool"    -> s_bool
           [] type.primitiveType = "Void"    -> s_void
           [] type.primitiveType = "String"  -> s_string
           [] type.primitiveType = "UInt8"   -> s_uint8
           [] OTHER                          -> s_object
    ELSE IF type.classType # NoClass
         THEN GetQualifiedClassName(clss[type.classType])
         ELSE s_object

(***************************************************************************)
(* Value: the tagged variant of objectir_runtime.hpp.  One record shape    *)
(* for every alternative: t is the tag, i the integer/bool/object payload, *)
(* s the string payload.  A float32 or float64 holds the rational i / den  *)
(* (den = 0 for the infinities and NaN); binary rounding is left out.      *)
(***************************************************************************)
NullObject == 0

Null == [t |-> "null", i |-> 0, s |-> <<>>, den |-> 1]

Int32V(n) == [t |-> "int32", i |-> n, s |-> <<>>, den |-> 1]

Int64V(n) == [t |-> "int64", i |-> n, s |-> <<>>, den |-> 1]

BoolV(b) == [t |-> "bool", i |-> IF b THEN 1 ELSE 0, s |-> <<>>, den |-> 1]

StrV(str) == [t |-> "string", i |-> 0, s |-> str, den |-> 1]

ObjV(obj) == [t |-> "object", i |-> obj, s |-> <<>>, den |-> 1]

RECURSIVE Gcd(_, _)
Gcd(a, b) == IF b = 0 THEN a ELSE Gcd(b, a % b)

Abs(n) == IF n < 0 THEN 0 - n ELSE n

Sign(n) == IF n < 0 THEN 0 - 1 ELSE IF n > 0 THEN 1 ELSE 0

\* the double num / den in lowest terms; den = 0 gives an infinity or NaN
Rational(num, den) ==
    IF den = 0 THEN [num |-> Sign(num), den |-> 0]
    ELSE With(Gcd(Abs(num), Abs(den)), LAMBDA g :
            [num |-> (Sign(den) * num) \div g, den |-> Abs(den) \div g])

Float32V(r) == [t |-> "float32", i |-> r.num, s |-> <<>>, den |-> r.den]

Float64V(r) == [t |-> "float64", i |-> r.num, s |-> <<>>, den |-> r.den]

IsObject(v) == v.t = "object"

IsNull(v) == v.t = "null"

Digits == <<"0","1","2","3","4","5","6","7","8","9">>

IsDigit(c) == \E d \in DOMAIN Digits : Digits[d] = c

DigitValue(c) == (CHOOSE d \in DOMAIN Digits : Digits[d] = c) - 1

RECURSIVE DecimalValue(_)
DecimalValue(ds) ==
    IF ds = <<>> THEN 0
    ELSE 10 * DecimalValue(SubSeq(ds, 1, Len(ds) - 1)) + DigitValue(ds[Len(ds)])

\* std::stoi: skips leading white space, takes an optional sign and the longest
\* run of decimal digits; invalid_argument without a digit, out_of_range beyond int
StoiValue(digits, negative) ==
    With(IF negative THEN 0 - DecimalValue(digits) ELSE DecimalValue(digits),
         LAMBDA val :
            IF digits = <<>> \/ val > 2147483647 \/ val < (0 - 2147483647) - 1
            THEN [ok |-> FALSE, val |-> 0]
            ELSE [ok |-> TRUE, val |-> val])

\* the digits of str from index first up to the first character that is no digit
DigitRun(str, first) ==
    LET stops == {j \in first..Len(str) : ~IsDigit(str[j])}
    IN  SubSeq(str, first, (IF stops = {} THEN Len(str) + 1 ELSE SetMin(stops)) - 1)

StoiFrom(str, start) ==
    IF start <= Len(str) /\ str[start] \in {"+", "-"}
    THEN StoiValue(DigitRun(str, start + 1), str[start] = "-")
    ELSE StoiValue(DigitRun(str, start), FALSE)

Stoi(str) ==
    LET solid == {i \in DOMAIN str : ~IsSpace(str[i])}
    IN  StoiFrom(str, IF solid = {} THEN Len(str) + 1 ELSE SetMin(solid))

RECURSIVE NatToString(_)
NatToString(n) ==
    IF n < 10 THEN <<Digits[n + 1]>>
    ELSE NatToString(n \div 10) \o <<Digits[(n % 10) + 1]>>

\* std::to_string on an integer
IntToString(n) == IF n < 0 THEN <<"-">> \o NatToString(0 - n) ELSE NatToString(n)

\* n written with at least width digits, zero-padded on the left
RECURSIVE PadLeft(_, _)
PadLeft(digits, width) ==
    IF Len(digits) >= width THEN digits ELSE PadLeft(<<"0">> \o digits, width)

\* the magnitude num / den in millionths, rounded to nearest
Millionths(num, den) == (2 * 1000000 * num + den) \div (2 * den)

\* std::to_string on a float or double: printf's %f, six decimals
FloatToString(num, den) ==
    IF den = 0
    THEN (IF num < 0 THEN <<"-">> ELSE <<>>)
            \o (IF num = 0 THEN <<"n","a","n">> ELSE <<"i","n","f">>)
    ELSE With(Millionths(Abs(num) % den, den), LAMBDA frac :
            (IF num < 0 THEN <<"-">> ELSE <<>>)
            \o NatToString(Abs(num) \div den + frac \div 1000000)
            \o <<".">> \o PadLeft(NatToString(frac % 1000000), 6))

ValueToString(value) ==
    CASE value.t = "null"   -> <<"n","u","l","l">>
      [] value.t = "string" -> value.s
      [] value.t = "int32"  -> IntToString(value.i)
      [] value.t = "int64"  -> IntToString(value.i)
      [] value.t \in {"float32", "float64"} -> FloatToString(value.i, value.den)
      [] value.t = "bool"   -> IF value.i = 1 THEN <<"t","r","u","e">> ELSE <<"f","a","l","s","e">>
      [] value.t = "object" -> <<"<","o","b","j","e","c","t",">">>
      [] OTHER              -> <<>>

ValueToBool(value) ==
    CASE value.t = "bool"   -> value.i = 1
      [] value.t = "null"   -> FALSE
      [] value.t = "int32"  -> value.i # 0
      [] value.t = "int64"  -> value.i # 0
      [] value.t \in {"float32", "float64"} -> value.i # 0 \/ value.den = 0
      [] value.t = "string" -> value.s # <<>>
      [] value.t = "object" -> TRUE
      [] OTHER              -> FALSE

(***************************************************************************)
(* Instruction and CallTarget, and the JSON documents they are decoded     *)
(* from.                                                                   *)
(***************************************************************************)
NoCallTarget == [declaringType |-> <<>>, name |-> <<>>, returnType |-> <<>>,
                 parameterTypes |-> <<>>]

NoFieldTarget == [declaringType |-> <<>>, name |-> <<>>, type |-> <<>>]

\* a default-constructed Instruction::ConditionData
NoCondition ==
    [kind |-> "None", comparisonOp |-> "Nop", setupInstructions |-> <<>>,
     expressionInstructions |-> <<>>]

\* a default-constructed Instruction
DefaultInstruction ==
    [opCode |-> "Nop", identifier |-> <<>>, operandInt |-> 0, hasOperandInt |-> FALSE,
     operandString |-> <<>>, hasConstant |-> FALSE, constantType |-> <<>>,
     constantRawValue |-> <<>>, constantBool |-> FALSE, constantIsNull |-> FALSE,
     hasCallTarget |-> FALSE, callTarget |-> NoCallTarget,
     operandDouble |-> Rational(0, 1), hasFieldTarget |-> FALSE,
     fieldTarget |-> NoFieldTarget, hasWhileData |-> FALSE, condition |-> NoCondition,
     body |-> <<>>, hasIfData |-> FALSE, thenBlock |-> <<>>, elseBlock |-> <<>>]

\* what a read past the end of an instruction list is recorded as
NoInstruction == [DefaultInstruction EXCEPT !.opCode = "None"]

\* JSON values: k is the JSON type ("absent" when the key is missing)
JAbsent == [k |-> "absent", i |-> 0, s |-> <<>>, b |-> FALSE]

\* a JSON array of instruction objects
JArray(items) == [k |-> "array", items |-> items]

NoJArray == [k |-> "absent", items |-> <<>>]

\* the "field" node of an ldfld/stfld operand: a string or an object
JFieldString(str) ==
    [k |-> "string", s |-> str, declaringType |-> JAbsent, name |-> JAbsent,
     type |-> JAbsent]

JFieldObject(declaringType, name, type) ==
    [k |-> "object", s |-> <<>>, declaringType |-> declaringType, name |-> name,
     type |-> type]

NoJField == [JFieldString(<<>>) EXCEPT !.k = "absent"]

\* the "expression" node of a condition: one instruction object
JExpression(instr) == [k |-> "object", items |-> <<instr>>]

\* the "condition" node of a while operand
JCondition(kind, operation, expression) ==
    [k |-> "object", kind |-> kind, operation |-> operation, expression |-> expression]

NoJCondition == [JCondition(JAbsent, JAbsent, NoJArray) EXCEPT !.k = "absent"]

JNull == [k |-> "null", i |-> 0, s |-> <<>>, b |-> FALSE]

JInt(n) == [k |-> "int", i |-> n, s |-> <<>>, b |-> FALSE]

JStr(str) == [k |-> "string", i |-> 0, s |-> str, b |-> FALSE]

JBool(b) == [k |-> "bool", i |-> 0, s |-> <<>>, b |-> b]

\* the "method" object of a call operand
JMethod(declaringType, name, parameterTypes, returnType) ==
    [declaringType |-> declaringType, name |-> name, returnType |-> returnType,
     hasParameterTypes |-> TRUE, parameterTypes |-> parameterTypes]

NoJMethod == [declaringType |-> JAbsent, name |-> JAbsent, returnType |-> JAbsent,
              hasParameterTypes |-> FALSE, parameterTypes |-> <<>>]

\* an operand: a scalar (k, i, s) or an object with the keys the decoder reads
JOperandAbsent ==
    [k |-> "absent", i |-> 0, s |-> <<>>, argumentName |-> JAbsent,
     localName |-> JAbsent, type |-> JAbsent, value |-> JAbsent, target |-> JAbsent,
     offset |-> JAbsent, hasMethod |-> FALSE, method |-> NoJMethod,
     double |-> Rational(0, 1), field |-> NoJField, condition |-> NoJCondition,
     body |-> NoJArray, thenBlock |-> NoJArray, elseBlock |-> NoJArray]

JOperandObject == [JOperandAbsent EXCEPT !.k = "object"]

JOperandInt(n) == [JOperandAbsent EXCEPT !.k = "int", !.i = n]

JOperandString(str) == [JOperandAbsent EXCEPT !.k = "string", !.s = str]

JOperandFloat(num, den) ==
    [JOperandAbsent EXCEPT !.k = "float", !.double = Rational(num, den)]

\* {"opCode": op} and {"opCode": op, "operand": operand}
JInstr0(op) == [opCode |-> JStr(op), operand |-> JOperandAbsent]

JInstr(op, operand) == [opCode |-> JStr(op), operand |-> operand]

OpCodeTable ==
    { <<s_nop, "Nop">>, <<s_dup, "Dup">>, <<s_pop, "Pop">>,
      <<s_ldarg, "LdArg">>, <<s_ldloc, "LdLoc">>, <<s_ldfld, "LdFld">>,
      <<s_ldcon, "LdCon">>, <<s_ldc, "LdCon">>, <<s_ldstr, "LdStr">>,
      <<s_ldi4, "LdI4">>, <<s_ldi32, "LdI4">>, <<s_ldc_i4, "LdI4">>,
      <<s_ldi8, "LdI8">>, <<s_ldi64, "LdI8">>, <<s_ldc_i8, "LdI8">>,
      <<s_ldr4, "LdR4">>, <<s_ldc_r4, "LdR4">>, <<s_ldr8, "LdR8">>, <<s_ldc_r8, "LdR8">>,
      <<s_ldtrue, "LdTrue">>, <<s_ldfalse, "LdFalse">>, <<s_ldnull, "LdNull">>,
      <<s_stloc, "StLoc">>, <<s_stfld, "StFld">>, <<s_starg, "StArg">>,
      <<s_add, "Add">>, <<s_sub, "Sub">>, <<s_mul, "Mul">>, <<s_div, "Div">>,
      <<s_rem, "Rem">>, <<s_neg, "Neg">>,
      <<s_ceq, "Ceq">>, <<s_cne, "Cne">>, <<s_clt, "Clt">>, <<s_cle, "Cle">>,
      <<s_cgt, "Cgt">>, <<s_cge, "Cge">>,
      <<s_ret, "Ret">>, <<s_br, "Br">>, <<s_brtrue, "BrTrue">>, <<s_brfalse, "BrFalse">>,
      <<s_beq, "Beq">>, <<s_beq_s, "Beq">>,
      <<s_bne, "Bne">>, <<s_bne_un, "Bne">>, <<s_bne_s, "Bne">>,
      <<s_bgt, "Bgt">>, <<s_bgt_s, "Bgt">>, <<s_bgt_un, "Bgt">>,
      <<s_blt, "Blt">>, <<s_blt_s, "Blt">>, <<s_blt_un, "Blt">>,
      <<s_bge, "Bge">>, <<s_bge_s, "Bge">>, <<s_bge_un, "Bge">>,
      <<s_ble, "Ble">>, <<s_ble_s, "Ble">>, <<s_ble_un, "Ble">>,
      <<s_if, "If">>, <<s_newobj, "NewObj">>, <<s_call, "Call">>,
      <<s_callvirt, "CallVirt">>, <<s_castclass, "CastClass">>, <<s_isinst, "IsInst">>,
      <<s_newarr, "NewArr">>, <<s_ldelem, "LdElem">>, <<s_stelem, "StElem">>,
      <<s_ldlen, "LdLen">>, <<s_break, "Break">>, <<s_continue, "Continue">>,
      <<s_throw, "Throw">>, <<s_while, "While">> }

\* ok = FALSE stands for the "Unknown opcode" exception
ParseOpCode(opStr) ==
    LET op   == ToLowerAscii(opStr)
        hits == {p \in OpCodeTable : p[1] = op}
    IN  IF hits = {} THEN [ok |-> FALSE, op |-> "Nop"]
        ELSE [ok |-> TRUE, op |-> (CHOOSE p \in hits : TRUE)[2]]

BranchOpCodes == {"Br", "BrTrue", "BrFalse", "Beq", "Bne", "Bgt", "Blt", "Bge", "Ble"}

\* json::value(key, "") : the default for a missing key, the string, or a type_error
JStringOr(jv, dflt) ==
    CASE jv.k = "absent" -> [ok |-> TRUE, s |-> dflt]
      [] jv.k = "string" -> [ok |-> TRUE, s |-> jv.s]
      [] OTHER           -> [ok |-> FALSE, s |-> <<>>]

DecodeFailed == [ok |-> FALSE, instr |-> DefaultInstruction]

Decoded(instr) == [ok |-> TRUE, instr |-> instr]

\* the Call/CallVirt case of ParseJsonInstruction
ParseCallOperand(instr, operand) ==
    IF ~operand.hasMethod THEN Decoded(instr)
    ELSE
        LET m    == operand.method
            decl == JStringOr(m.declaringType, <<>>)
            name == JStringOr(m.name, <<>>)
            ret  == JStringOr(m.returnType, s_void)
            pts  == IF m.hasParameterTypes THEN m.parameterTypes ELSE <<>>
        IN  IF ~decl.ok \/ ~name.ok \/ ~ret.ok
               \/ \E i \in DOMAIN pts : pts[i].k # "string"
            THEN DecodeFailed
            ELSE Decoded([instr EXCEPT
                    !.hasCallTarget = TRUE,
                    !.callTarget = [declaringType |-> decl.s, name |-> name.s,
                                    returnType |-> NormalizeTypeName(ret.s),
                                    parameterTypes |->
                                        [i \in DOMAIN pts |-> NormalizeTypeName(pts[i].s)]]])

\* the branch case of ParseJsonInstruction
ParseBranchOperand(instr, operand) ==
    CASE operand.k = "object" /\ operand.target.k = "int" ->
            Decoded([instr EXCEPT !.operandInt = operand.target.i, !.hasOperandInt = TRUE])
      [] operand.k = "object" /\ operand.target.k = "string" ->
            Decoded([instr EXCEPT !.operandString = operand.target.s,
                                  !.hasOperandInt = FALSE])
      [] operand.k = "object" /\ operand.target.k \notin {"absent", "int", "string"} ->
            Decoded([instr EXCEPT !.operandInt = 0, !.hasOperandInt = TRUE])
      [] operand.k = "object" /\ operand.target.k = "absent"
                              /\ operand.offset.k = "int" ->
            Decoded([instr EXCEPT !.operandInt = operand.offset.i, !.hasOperandInt = TRUE])
      [] operand.k = "object" /\ operand.target.k = "absent"
                              /\ operand.offset.k \notin {"absent", "int"} ->
            DecodeFailed
      [] operand.k = "int" ->
            Decoded([instr EXCEPT !.operandInt = operand.i, !.hasOperandInt = TRUE])
      [] operand.k = "string" ->
            Decoded([instr EXCEPT !.operandString = operand.s])
      [] OTHER -> Decoded(instr)

\* the LdCon/LdStr case of ParseJsonInstruction
ParseConstantOperand(instr, operand) ==
    LET type  == JStringOr(operand.type, <<>>)
        base  == [instr EXCEPT !.hasConstant = TRUE, !.constantType = type.s]
        value == operand.value
    IN  IF ~type.ok THEN DecodeFailed
        ELSE CASE value.k = "absent" -> Decoded([base EXCEPT !.constantIsNull = TRUE])
               [] value.k = "string" -> Decoded([base EXCEPT !.constantRawValue = value.s])
               [] value.k = "int"    ->
                    Decoded([base EXCEPT !.constantRawValue = IntToString(value.i)])
               [] value.k = "bool"   ->
                    Decoded([base EXCEPT !.constantBool = value.b,
                        !.constantRawValue = IF value.b THEN <<"t","r","u","e">>
                                             ELSE <<"f","a","l","s","e">>])
               [] value.k = "null"   -> Decoded([base EXCEPT !.constantIsNull = TRUE])
               [] OTHER              -> Decoded(base)

\* the identifier cases (ldarg/starg read argumentName, ldloc/stloc localName)
ParseIdentifierOperand(instr, key) ==
    LET id == JStringOr(key, <<>>)
    IN  IF ~id.ok THEN DecodeFailed ELSE Decoded([instr EXCEPT !.identifier = id.s])

\* the LdFld/StFld case of ParseJsonInstruction: "Class.field" or an object
FieldTargetOf(field) ==
    With(FindLastOf(field.s, "."), LAMBDA dotPos :
        IF field.k = "string"
        THEN IF dotPos # 0
             THEN [NoFieldTarget EXCEPT
                     !.declaringType = SubSeq(field.s, 1, dotPos - 1),
                     !.name = SubstrFrom(field.s, dotPos + 1)]
             ELSE [NoFieldTarget EXCEPT !.name = field.s]
        ELSE [declaringType |-> JStringOr(field.declaringType, <<>>).s,
              name |-> JStringOr(field.name, <<>>).s,
              type |-> JStringOr(field.type, <<>>).s])

ParseFieldOperand(instr, operand) ==
    With(operand.field, LAMBDA field :
        IF operand.k # "object" \/ field.k = "absent" THEN Decoded(instr)
        ELSE IF field.k \notin {"string", "object"} THEN DecodeFailed
        ELSE IF field.k = "object" /\ ( \/ ~JStringOr(field.declaringType, <<>>).ok
                                        \/ ~JStringOr(field.name, <<>>).ok
                                        \/ ~JStringOr(field.type, <<>>).ok )
        THEN DecodeFailed
        ELSE Decoded([instr EXCEPT !.hasFieldTarget = TRUE,
                                   !.fieldTarget = FieldTargetOf(field),
                                   !.operandString = FieldTargetOf(field).name]))

ConditionKinds ==
    { <<s_stack, "Stack">>, <<s_binary, "Binary">>, <<s_expression, "Expression">> }

RECURSIVE ParseJsonInstruction(_)

\* every element decoded: the list, or the first failure
AllDecoded(parsed) ==
    IF \E i \in DOMAIN parsed : ~parsed[i].ok
    THEN [ok |-> FALSE, instructions |-> <<>>]
    ELSE [ok |-> TRUE, instructions |-> [i \in DOMAIN parsed |-> parsed[i].instr]]

\* ParseInstructionArray: a node that is no array gives the empty list
ParseInstructionArray(node) ==
    IF node.k # "array" THEN [ok |-> TRUE, instructions |-> <<>>]
    ELSE AllDecoded([i \in DOMAIN node.items |-> ParseJsonInstruction(node.items[i])])

ConditionFailed == [ok |-> FALSE, data |-> NoCondition]

\* ParseConditionNode: setupInstructions is never filled; the expression is decoded
\* as one instruction object, which an array is not
ParseConditionNode(node) ==
    IF node.k # "object" \/ node.kind.k # "string" THEN ConditionFailed
    ELSE With({p \in ConditionKinds : p[1] = node.kind.s}, LAMBDA kinds :
         With(ParseOpCode(node.operation.s), LAMBDA opc :
         With(AllDecoded([i \in DOMAIN node.expression.items |->
                            ParseJsonInstruction(node.expression.items[i])]), LAMBDA expr :
            IF kinds = {} THEN ConditionFailed
            ELSE IF \E p \in kinds : p[2] = "Binary"
            THEN IF node.operation.k # "string" \/ ~opc.ok THEN ConditionFailed
                 ELSE [ok |-> TRUE,
                       data |-> [NoCondition EXCEPT !.kind = "Binary",
                                                    !.comparisonOp = opc.op]]
            ELSE IF \E p \in kinds : p[2] = "Expression"
            THEN IF node.expression.k = "array" \/ ~expr.ok THEN ConditionFailed
                 ELSE [ok |-> TRUE,
                       data |-> [NoCondition EXCEPT !.kind = "Expression",
                                    !.expressionInstructions = expr.instructions]]
            ELSE [ok |-> TRUE, data |-> [NoCondition EXCEPT !.kind = "Stack"]])))

\* the While case of ParseJsonInstruction
ParseWhileOperand(instr, operand) ==
    With(IF operand.condition.k = "absent" THEN [ok |-> TRUE, data |-> NoCondition]
         ELSE ParseConditionNode(operand.condition), LAMBDA cond :
    With(ParseInstructionArray(operand.body), LAMBDA body :
        IF operand.k # "object" \/ ~cond.ok \/ ~body.ok THEN DecodeFailed
        ELSE Decoded([instr EXCEPT !.hasWhileData = TRUE, !.condition = cond.data,
                                   !.body = body.instructions])))

\* the If case of ParseJsonInstruction
ParseIfOperand(instr, operand) ==
    With(ParseInstructionArray(operand.thenBlock), LAMBDA thenBlock :
    With(ParseInstructionArray(operand.elseBlock), LAMBDA elseBlock :
        IF operand.k # "object" \/ ~thenBlock.ok \/ ~elseBlock.ok THEN DecodeFailed
        ELSE Decoded([instr EXCEPT !.hasIfData = TRUE,
                                   !.thenBlock = thenBlock.instructions,
                                   !.elseBlock = elseBlock.instructions])))

\* the operand cases of ParseJsonInstruction, by opcode
ParseOperand(instr, operand) ==
    IF operand.k \in {"absent", "null"} THEN Decoded(instr)
    ELSE CASE instr.opCode \in {"LdArg", "StArg"} ->
                ParseIdentifierOperand(instr, operand.argumentName)
           [] instr.opCode \in {"LdLoc", "StLoc"} ->
                ParseIdentifierOperand(instr, operand.localName)
           [] instr.opCode \in {"LdFld", "StFld"} -> ParseFieldOperand(instr, operand)
           [] instr.opCode \in {"LdCon", "LdStr"} -> ParseConstantOperand(instr, operand)
           [] instr.opCode \in {"Call", "CallVirt"} -> ParseCallOperand(instr, operand)
           [] instr.opCode = "NewObj" ->
                IF ~JStringOr(operand.type, <<>>).ok THEN DecodeFailed
                ELSE Decoded([instr EXCEPT
                                !.operandString = JStringOr(operand.type, <<>>).s])
           [] instr.opCode \in BranchOpCodes -> ParseBranchOperand(instr, operand)
           [] instr.opCode = "While" -> ParseWhileOperand(instr, operand)
           [] instr.opCode = "If" -> ParseIfOperand(instr, operand)
           [] OTHER ->
                CASE operand.k = "string" ->
                        Decoded([instr EXCEPT !.operandString = operand.s])
                  [] operand.k = "int" ->
                        Decoded([instr EXCEPT !.operandInt = operand.i,
                                              !.hasOperandInt = TRUE])
                  [] operand.k = "float" ->
                        Decoded([instr EXCEPT !.operandDouble = operand.double,
                                              !.hasOperandInt = TRUE])
                  [] OTHER -> Decoded(instr)

ParseJsonInstruction(instrJson) ==
    IF ~JStringOr(instrJson.opCode, <<>>).ok THEN DecodeFailed
    ELSE With(ParseOpCode(JStringOr(instrJson.opCode, <<>>).s), LAMBDA opc :
            IF ~opc.ok THEN DecodeFailed
            ELSE ParseOperand([DefaultInstruction EXCEPT !.opCode = opc.op],
                              instrJson.operand))

\* the compile loop of the replace functions: every node decoded, or the failure
CompileInstructions(nodes) ==
    AllDecoded([i \in DOMAIN nodes |-> ParseJsonInstruction(nodes[i])])

\* the Value of a parsed integer constant; ok = FALSE when std::stoi throws
IntegerConstant(n, wide) ==
    [ok |-> n.ok, v |-> IF wide THEN Int64V(n.val) ELSE Int32V(n.val)]

\* the type cases of CreateConstantValue, on the lower-cased type and value
ConstantOfType(instr, typeLower, valueLower) ==
    IF instr.constantIsNull THEN [ok |-> TRUE, v |-> Null]
    ELSE IF typeLower \in {s_system_string, s_string}
         THEN [ok |-> TRUE, v |-> StrV(instr.constantRawValue)]
    ELSE IF typeLower \in {s_system_boolean, s_bool, s_boolean}
         THEN [ok |-> TRUE, v |-> BoolV(
                IF instr.constantRawValue = <<>> THEN instr.constantBool
                ELSE IF valueLower \in {<<"t","r","u","e">>, <<"1">>} THEN TRUE
                ELSE IF valueLower \in {<<"f","a","l","s","e">>, <<"0">>} THEN FALSE
                ELSE instr.constantBool)]
    ELSE IF typeLower \in {s_system_int32, s_int32, s_int}
         THEN IntegerConstant(Stoi(instr.constantRawValue), FALSE)
    ELSE IF typeLower \in {s_system_int64, s_int64, s_long}
         THEN IntegerConstant(Stoi(instr.constantRawValue), TRUE)
    ELSE IF instr.constantBool THEN [ok |-> TRUE, v |-> BoolV(TRUE)]
    ELSE [ok |-> TRUE, v |-> StrV(instr.constantRawValue)]

CreateConstantValue(instr) ==
    ConstantOfType(instr, ToLowerAscii(instr.constantType),
                   ToLowerAscii(instr.constantRawValue))

(***************************************************************************)
(* Instructions back to JSON: the metadata export.                         *)
(***************************************************************************)
OpCodeStrings ==
    { <<"Nop", s_nop>>, <<"Dup", s_dup>>, <<"Pop", s_pop>>,
      <<"LdArg", s_ldarg>>, <<"LdLoc", s_ldloc>>, <<"LdFld", s_ldfld>>,
      <<"LdCon", s_ldc>>, <<"LdStr", s_ldstr>>, <<"LdI4", s_ldi4>>,
      <<"LdI8", s_ldi8>>, <<"LdR4", s_ldr4>>, <<"LdR8", s_ldr8>>,
      <<"LdTrue", s_ldtrue>>, <<"LdFalse", s_ldfalse>>, <<"LdNull", s_ldnull>>,
      <<"StLoc", s_stloc>>, <<"StFld", s_stfld>>, <<"StArg", s_starg>>,
      <<"Add", s_add>>, <<"Sub", s_sub>>, <<"Mul", s_mul>>, <<"Div", s_div>>,
      <<"Rem", s_rem>>, <<"Neg", s_neg>>,
      <<"Ceq", s_ceq>>, <<"Cne", s_cne>>, <<"Clt", s_clt>>, <<"Cle", s_cle>>,
      <<"Cgt", s_cgt>>, <<"Cge", s_cge>>,
      <<"Ret", s_ret>>, <<"Br", s_br>>, <<"BrTrue", s_brtrue>>,
      <<"BrFalse", s_brfalse>>, <<"Beq", s_beq>>, <<"Bne", s_bne>>,
      <<"Bgt", s_bgt>>, <<"Blt", s_blt>>, <<"Bge", s_bge>>, <<"Ble", s_ble>>,
      <<"If", s_if>>, <<"NewObj", s_newobj>>, <<"Call", s_call>>,
      <<"CallVirt", s_callvirt>>, <<"CastClass", s_castclass>>,
      <<"IsInst", s_isinst>>, <<"NewArr", s_newarr>>, <<"LdElem", s_ldelem>>,
      <<"StElem", s_stelem>>, <<"LdLen", s_ldlen>>, <<"Break", s_break>>,
      <<"Continue", s_continue>>, <<"Throw", s_throw>>, <<"While", s_while>> }

OpCodeToString(op) ==
    With({p \in OpCodeStrings : p[1] = op}, LAMBDA hits :
        IF hits = {} THEN s_nop ELSE (CHOOSE p \in hits : TRUE)[2])

\* the "value" a literal-loading instruction is exported with
SerializeLiteral(instr) ==
    [JOperandObject EXCEPT !.value =
        IF instr.constantRawValue # <<>> THEN JStr(instr.constantRawValue)
        ELSE IF instr.operandString # <<>> THEN JStr(instr.operandString)
        ELSE JInt(instr.operandInt)]

\* the "method" object a call target is exported as
SerializeCallTarget(target) ==
    JMethod(JStr(target.declaringType), JStr(target.name),
            [i \in DOMAIN target.parameterTypes |-> JStr(target.parameterTypes[i])],
            JStr(target.returnType))

RECURSIVE SerializeInstruction(_, _)

SerializeInstructionBlock(instructions, includeNested) ==
    JArray([i \in DOMAIN instructions |->
                SerializeInstruction(instructions[i], includeNested)])

\* the "condition" object of an exported while; the comparison of a binary
\* condition and the setup instructions are not written
SerializeCondition(condition, includeNested) ==
    [k |-> "object",
     kind |-> CASE condition.kind = "Stack" -> JStr(s_stack)
                [] condition.kind = "Binary" -> JStr(s_binary)
                [] condition.kind = "Expression" -> JStr(s_expression)
                [] OTHER -> JStr(s_none),
     operation |-> JAbsent,
     expression |-> IF condition.expressionInstructions # <<>>
                    THEN SerializeInstructionBlock(condition.expressionInstructions,
                                                   includeNested)
                    ELSE NoJArray]

\* the operand SerializeInstruction builds: absent when it has no key
SerializeOperand(instr, includeNested) ==
    CASE instr.opCode \in {"LdArg", "StArg"} ->
            IF instr.identifier # <<>>
            THEN [JOperandObject EXCEPT !.argumentName = JStr(instr.identifier)]
            ELSE JOperandAbsent
      [] instr.opCode \in {"LdLoc", "StLoc"} ->
            IF instr.identifier # <<>>
            THEN [JOperandObject EXCEPT !.localName = JStr(instr.identifier)]
            ELSE JOperandAbsent
      [] instr.opCode \in {"LdFld", "StFld"} ->
            IF instr.hasFieldTarget
            THEN [JOperandObject EXCEPT !.field = JFieldString(instr.fieldTarget.name)]
            ELSE IF instr.identifier # <<>>
            THEN [JOperandObject EXCEPT !.field = JFieldString(instr.identifier)]
            ELSE JOperandAbsent
      [] instr.opCode = "LdCon" ->
            With(IF instr.constantIsNull THEN JNull
                 ELSE IF instr.constantRawValue # <<>> THEN JStr(instr.constantRawValue)
                 ELSE JAbsent, LAMBDA value :
            With(IF instr.constantType # <<>> THEN JStr(instr.constantType) ELSE JAbsent,
                 LAMBDA type :
                IF value.k = "absent" /\ type.k = "absent" THEN JOperandAbsent
                ELSE [JOperandObject EXCEPT !.value = value, !.type = type]))
      [] instr.opCode \in {"LdI4", "LdI8", "LdR4", "LdR8", "LdStr"} ->
            SerializeLiteral(instr)
      [] instr.opCode \in {"Call", "CallVirt"} ->
            IF instr.hasCallTarget
            THEN [JOperandObject EXCEPT !.hasMethod = TRUE,
                                        !.method = SerializeCallTarget(instr.callTarget)]
            ELSE JOperandAbsent
      [] instr.opCode = "NewObj" ->
            IF instr.operandString # <<>>
            THEN [JOperandObject EXCEPT !.type = JStr(instr.operandString)]
            ELSE JOperandAbsent
      [] instr.opCode = "If" ->
            IF includeNested /\ instr.hasIfData
            THEN [JOperandObject EXCEPT
                    !.thenBlock = SerializeInstructionBlock(instr.thenBlock, includeNested),
                    !.elseBlock = SerializeInstructionBlock(instr.elseBlock, includeNested)]
            ELSE JOperandAbsent
      [] instr.opCode = "While" ->
            IF includeNested /\ instr.hasWhileData
            THEN [JOperandObject EXCEPT
                    !.condition = IF instr.condition.kind # "None"
                                  THEN SerializeCondition(instr.condition, includeNested)
                                  ELSE NoJCondition,
                    !.body = SerializeInstructionBlock(instr.body, includeNested)]
            ELSE JOperandAbsent
      [] instr.opCode \in BranchOpCodes ->
            IF instr.hasOperandInt
            THEN [JOperandObject EXCEPT !.target = JInt(instr.operandInt)]
            ELSE IF instr.operandString # <<>>
            THEN [JOperandObject EXCEPT !.target = JStr(instr.operandString)]
            ELSE JOperandAbsent
      [] OTHER ->
            IF instr.operandString # <<>>
            THEN [JOperandObject EXCEPT !.value = JStr(instr.operandString)]
            ELSE JOperandAbsent

SerializeInstruction(instr, includeNested) ==
    JInstr(OpCodeToString(instr.opCode), SerializeOperand(instr, includeNested))

(***************************************************************************)
(* Class registry (VirtualMachine::_classes), a map kept as a set of       *)
(* [key, cls] entries with one entry per key.                              *)
(***************************************************************************)
MapHas(map, key) == \E e \in map : e.key = key

MapGet(map, key) == (CHOOSE e \in map : e.key = key).cls

MapPut(map, key, cls) == {e \in map : e.key # key} \cup {[key |-> key, cls |-> cls]}

\* VirtualMachine::RegisterClass: the class is stored under up to three keys
RegisterClass(map, id, cls) ==
    LET simpleName == SimpleNameOf(cls.name)
        qualified  == GetQualifiedClassName(cls)
        m1 == IF simpleName # <<>> THEN MapPut(map, simpleName, id) ELSE map
        m2 == IF cls.name # <<>> THEN MapPut(m1, cls.name, id) ELSE m1
    IN  IF qualified # <<>> THEN MapPut(m2, qualified, id) ELSE m2

HasClass(name) == MapHas(registry, name)

\* VirtualMachine::GetClass: ok = FALSE stands for "Class not found"
GetClass(name) ==
    IF MapHas(registry, name) THEN [ok |-> TRUE, cls |-> MapGet(registry, name)]
    ELSE IF FindLastOf(name, ".") # 0 /\ MapHas(registry, SimpleNameOf(name))
         THEN [ok |-> TRUE, cls |-> MapGet(registry, SimpleNameOf(name))]
         ELSE [ok |-> FALSE, cls |-> NoClass]

\* the characters of the model in ASCII order, for std::sort on strings
AsciiOrder == <<" ", ".", "0","1","2","3","4","5","6","7","8","9",
                "A","B","C","D","E","F","G","H","I","J","K","L","M",
                "N","O","P","Q","R","S","T","U","V","W","X","Y","Z", "_",
                "a","b","c","d","e","f","g","h","i","j","k","l","m",
                "n","o","p","q","r","s","t","u","v","w","x","y","z">>

CharCode(c) == CHOOSE i \in DOMAIN AsciiOrder : AsciiOrder[i] = c

\* operator< of std::string
RECURSIVE StringLess(_, _)
StringLess(x, y) ==
    IF y = <<>> THEN FALSE
    ELSE IF x = <<>> THEN TRUE
    ELSE IF x[1] # y[1] THEN CharCode(x[1]) < CharCode(y[1])
    ELSE StringLess(Tail(x), Tail(y))

\* n ends with "." + className
HasDotSuffix(n, className) ==
    /\ Len(n) >= Len(className) + 1
    /\ SubSeq(n, Len(n) - Len(className), Len(n)) = <<".">> \o className

\* FindClass of the plugin API: exact key, else the first registered name, in sorted
\* order, that equals className or ends with "." + className
FindClass(className) ==
    With({n \in {e.key : e \in registry} : n = className \/ HasDotSuffix(n, className)},
         LAMBDA hits :
        IF className = <<>> THEN [ok |-> FALSE, cls |-> NoClass]
        ELSE IF HasClass(className) THEN GetClass(className)
        ELSE IF hits # {}
             THEN GetClass(CHOOSE n \in hits : \A o \in hits : o = n \/ StringLess(n, o))
        ELSE [ok |-> FALSE, cls |-> NoClass])

(***************************************************************************)
(* Class and Method lookups.                                               *)
(***************************************************************************)
NoMethod == 0

\* the methods of one class named name, in declaration order
MethodsNamed(cls, name) ==
    SelectSeq(classes[cls].methods, LAMBDA m : methods[m].name = name)

\* Class::GetMethod
GetMethod(cls, name) ==
    LET named == MethodsNamed(cls, name)
    IN  IF named = <<>> THEN NoMethod ELSE named[1]

\* Class::LookupMethod
RECURSIVE LookupMethod(_, _)
LookupMethod(cls, name) ==
    IF GetMethod(cls, name) # NoMethod THEN GetMethod(cls, name)
    ELSE IF classes[cls].baseClass # NoClass
         THEN LookupMethod(classes[cls].baseClass, name)
         ELSE NoMethod

\* CollectMethodsByName: this class first, then each base class in turn
RECURSIVE CollectMethodsByName(_, _)
CollectMethodsByName(cls, name) ==
    IF cls = NoClass THEN <<>>
    ELSE MethodsNamed(cls, name) \o CollectMethodsByName(classes[cls].baseClass, name)

\* the comparison of TypeNameMatchesParameter on the two computed names
NamesMatch(requestedNorm, paramCanon) ==
    IF requestedNorm = paramCanon THEN TRUE
    ELSE IF FindLastOf(requestedNorm, ".") = 0
         THEN requestedNorm = SimpleNameOf(paramCanon)
         ELSE FALSE

TypeNameMatchesParameter(requestedType, parameterType) ==
    NamesMatch(NormalizeTypeName(requestedType),
               CanonicalTypeName(parameterType, classes))

\* arity and per-parameter type-name match of method m against the requested types
SignatureMatches(m, requestedParams) ==
    LET params == methods[m].parameters
    IN  /\ Len(params) = Len(requestedParams)
        /\ \A i \in DOMAIN params :
              TypeNameMatchesParameter(requestedParams[i], params[i].type)

Resolved(m) == [ok |-> TRUE, method |-> m, error |-> "none"]

ResolveFailed(error) == [ok |-> FALSE, method |-> NoMethod, error |-> error]

\* the candidates ResolveOverloadOrThrow keeps: static ones when requireStatic
Viable(found, requireStatic) ==
    SelectSeq(found, LAMBDA m : ~(requireStatic /\ ~methods[m].isStatic))

\* the choice among the viable candidates, given the normalized requested types
ChooseOverload(viable, target, requested) ==
    With(SelectSeq(viable, LAMBDA m : SignatureMatches(m, requested)), LAMBDA exact :
    With(SelectSeq(viable, LAMBDA m : Len(methods[m].parameters) = Len(requested)),
         LAMBDA arity :
        IF target.parameterTypes = <<>>
        THEN IF Len(viable) = 1 THEN Resolved(viable[1])
             ELSE ResolveFailed("AmbiguousOverload")
        ELSE IF Len(exact) = 1 THEN Resolved(exact[1])
        ELSE IF Len(exact) > 1 THEN ResolveFailed("AmbiguousOverload")
        ELSE IF Len(arity) = 1 THEN Resolved(arity[1])
        ELSE ResolveFailed("NoMatchingOverload")))

ResolveOverloadOrThrow(cls, target, requireStatic) ==
    IF cls = NoClass THEN ResolveFailed("NullClass")
    ELSE With(CollectMethodsByName(cls, target.name), LAMBDA found :
            IF found = <<>> THEN ResolveFailed("MethodNotFound")
            ELSE ChooseOverload(Viable(found, requireStatic), target,
                                NormalizeTypeNames(target.parameterTypes)))

\* FindMethodBySignatureOrThrow of the plugin API
FindMethodBySignatureOrThrow(cls, name, parameterTypes) ==
    With(CollectMethodsByName(cls, name), LAMBDA candidates :
    With(SelectSeq(candidates,
            LAMBDA m : SignatureMatches(m, NormalizeTypeNames(parameterTypes))),
         LAMBDA exact :
        IF candidates = <<>> THEN ResolveFailed("MethodNotFound")
        ELSE IF Len(exact) = 1 THEN Resolved(exact[1])
        ELSE IF exact = <<>> THEN ResolveFailed("NoMatchingOverload")
        ELSE ResolveFailed("AmbiguousOverload")))

\* FindMethodUniqueNameOrThrow of the plugin API
FindMethodUniqueNameOrThrow(cls, name) ==
    With(CollectMethodsByName(cls, name), LAMBDA candidates :
        IF candidates = <<>> THEN ResolveFailed("MethodNotFound")
        ELSE IF Len(candidates) # 1 THEN ResolveFailed("AmbiguousOverload")
        ELSE Resolved(candidates[1]))

\* Method::HasInstructions
HasInstructions(m) == methods[m].instructions # <<>>

\* Method::GetNativeImpl converted to bool
HasNativeImpl(m) == methods[m].nativeImpl # "none"

\* the test "declared void" made after a body has run
ReturnsVoid(m) ==
    methods[m].returnType.isPrimitive /\ methods[m].returnType.primitiveType = "Void"

(***************************************************************************)
(* The loaded module.  IRLoader::LoadClass builds each class, decodes its  *)
(* method bodies with ParseJsonInstruction and registers it; Init is the   *)
(* VM after the load.                                                      *)
(***************************************************************************)
\* call operands as the IR producer writes them
JCall(declaringType, name, parameterTypes, returnType) ==
    [JOperandObject EXCEPT !.hasMethod = TRUE,
        !.method = JMethod(JStr(declaringType), JStr(name),
                           [i \in DOMAIN parameterTypes |-> JStr(parameterTypes[i])],
                           JStr(returnType))]

JTarget(jv) == [JOperandObject EXCEPT !.target = jv]

JLdStr(text) ==
    JInstr(s_ldstr, [JOperandObject EXCEPT !.type = JStr(s_System_String),
                                           !.value = JStr(text)])

JLdI4(n) == JInstr(s_ldi4, JOperandInt(n))

JLdArg(name) == JInstr(s_ldarg, [JOperandObject EXCEPT !.argumentName = JStr(name)])

JNewObj(type) == JInstr(s_newobj, [JOperandObject EXCEPT !.type = JStr(type)])

JWriteLine(op, parameterTypes, returnType) ==
    JInstr(op, JCall(s_System_Console, s_WriteLine, parameterTypes, returnType))

\* Program.Main as loaded: calls the native Program.Patch, then prints "old"
JMainLoaded ==
    << JInstr(s_call, JCall(s_Program, s_Patch, <<>>, s_void)),
       JLdStr(s_old),
       JWriteLine(s_call, <<s_string>>, s_void),
       JInstr0(s_ret) >>

\* the body the native Program.Patch installs on Program.Main
JPatchBody ==
    << JInstr0(s_nop),
       JLdStr(s_new),
       JWriteLine(s_call, <<s_string>>, s_void),
       JInstr0(s_ret) >>

\* the replacement body of scenario S5
JPatched ==
    << JLdStr(s_new),
       JWriteLine(s_call, <<s_System_String>>, s_System_Void),
       JInstr0(s_ret) >>

JReturn(n) == << JLdI4(n), JInstr0(s_ret) >>

\* leaves a value on the stack and runs past the last instruction
JResidual == << JLdI4(5) >>

\* calls and callvirts with arguments, a void callee and Console.WriteLine
JCalls ==
    << JLdI4(1),
       JLdStr(s_x),
       JInstr(s_call, JCall(s_Program, s_K, <<s_int, s_System_String>>, s_System_Int32)),
       JNewObj(s_Derived),
       JLdI4(2),
       JLdI4(3),
       JInstr(s_callvirt, JCall(s_Derived, s_Own, <<s_int32, s_int32>>, s_int32)),
       JNewObj(s_Base),
       JInstr(s_callvirt, JCall(s_Base, s_Inst, <<>>, s_void)),
       JWriteLine(s_callvirt, <<s_int32>>, s_void),
       JInstr0(s_ret) >>

\* a callvirt whose receiver class and its base both define G(int32)
JVirtual ==
    << JNewObj(s_Derived),
       JLdI4(5),
       JInstr(s_callvirt, JCall(s_Base, s_G, <<s_int32>>, s_int32)),
       JInstr0(s_ret) >>

\* branches by label, by index and by decimal string, taken and not taken
JBranches ==
    << JInstr(s_br, JTarget(JStr(s_end))),
       JInstr0(s_nop),
       JInstr0(s_nop),
       JLdI4(1),
       JInstr(s_brtrue, JTarget(JInt(6))),
       JInstr0(s_nop),
       JLdI4(0),
       JInstr(s_brtrue, JOperandInt(0)),
       JInstr0(s_ldnull),
       JInstr(s_brfalse, JOperandString(s_11)),
       JInstr0(s_nop),
       JLdI4(2),
       JLdI4(2),
       JInstr(s_beq, JTarget(JInt(15))),
       JInstr0(s_nop),
       JInstr0(s_ret) >>

\* a body shorter than the one the label "end" was computed for
JBranchStale == << JLdI4(5), JInstr(s_br, JTarget(JStr(s_end))), JInstr0(s_nop) >>

\* branches whose target cannot be resolved or lies outside the list
JBranchBadIndex == << JLdI4(5), JInstr(s_br, JTarget(JInt(9))) >>

JBranchBadString == << JLdI4(5), JInstr(s_br, JTarget(JStr(s_9))) >>

JBranchNoLabel == << JLdI4(5), JInstr(s_br, JTarget(JStr(s_x))) >>

JBranchNoOperand == << JLdI4(5), JInstr0(s_br) >>

\* an array one of whose elements has an unknown opcode
JUndecodable == << JLdI4(5), JInstr0(s_x) >>

JLdLoc(name) == JInstr(s_ldloc, [JOperandObject EXCEPT !.localName = JStr(name)])

JStLoc(name) == JInstr(s_stloc, [JOperandObject EXCEPT !.localName = JStr(name)])

JField(op, name) == JInstr(op, [JOperandObject EXCEPT !.field = JFieldString(name)])

JIf(thenBlock, elseBlock) ==
    JInstr(s_if, [JOperandObject EXCEPT !.thenBlock = JArray(thenBlock),
                                        !.elseBlock = JArray(elseBlock)])

JBinary(operation) == JCondition(JStr(s_binary), JStr(operation), NoJArray)

JWhile(condition, body) ==
    JInstr(s_while, [JOperandObject EXCEPT !.condition = condition,
                                           !.body = JArray(body)])

\* every stack-neutral, pushing and popping opcode outside calls and branches,
\* with operands of every numeric variant; the method has the local i
JArith ==
    << JLdI4(7), JStLoc(s_i), JLdLoc(s_i), JInstr0(s_dup), JInstr0(s_mul),
       JInstr(s_ldi8, JOperandInt(2)), JInstr0(s_sub),
       JInstr(s_ldr4, JOperandFloat(1, 2)), JInstr0(s_add),
       JInstr(s_ldr8, JOperandFloat(3, 2)), JInstr0(s_div), JInstr0(s_neg),
       JInstr0(s_pop),
       JLdI4(7), JLdI4(0 - 2), JInstr0(s_rem), JInstr0(s_neg), JLdI4(0 - 1),
       JInstr0(s_ceq),
       JIf(<< JLdStr(s_a), JLdStr(s_b), JInstr0(s_add), JLdStr(s_x), JInstr0(s_cne),
              JInstr0(s_pop), JInstr0(s_ldtrue), JInstr0(s_ldfalse), JInstr0(s_ceq),
              JInstr0(s_pop), JInstr0(s_ret) >>,
           << >>),
       JLdI4(1), JInstr(s_ldi8, JOperandInt(2)), JInstr0(s_clt),
       JIf(<< >>, << JInstr0(s_nop) >>),
       JLdI4(1), JInstr(s_ldr8, JOperandFloat(1, 1)), JInstr0(s_cle),
       JLdI4(3), JLdI4(2), JInstr0(s_cgt), JInstr0(s_pop),
       JLdI4(2), JLdI4(3), JInstr0(s_cge),
       JIf(<< JInstr0(s_nop) >>, << JInstr0(s_ldnull), JInstr0(s_pop) >>),
       JInstr(s_ldr8, JOperandFloat(3, 2)), JInstr(s_ldr4, JOperandFloat(1, 2)),
       JInstr0(s_mul), JInstr0(s_neg), JInstr0(s_pop),
       JInstr0(s_ldfalse), JIf(<< JInstr0(s_nop) >>, << >>),
       JLdI4(9), JInstr0(s_ldnull), JInstr(s_starg, [JOperandObject EXCEPT
                                        !.argumentName = JStr(s_a)]),
       JInstr0(s_ret) >>

\* the counted loop: i := 0; while i < 10 do i := i + 1; return i
JCount ==
    << JLdI4(0), JStLoc(s_i), JLdLoc(s_i), JLdI4(10),
       JWhile(JBinary(s_clt), << JLdLoc(s_i), JLdI4(1), JInstr0(s_add), JStLoc(s_i) >>),
       JLdLoc(s_i), JInstr0(s_ret) >>

\* break and continue: i := 0; while i < 10 do { i := i + 1; while true do
\* break; if i = 2 then continue; if i = 4 then break; write "x" }; return i
JLoop ==
    << JLdI4(0), JStLoc(s_i), JLdLoc(s_i), JLdI4(10),
       JWhile(JBinary(s_clt),
              << JLdLoc(s_i), JLdI4(1), JInstr0(s_add), JStLoc(s_i),
                 JWhile(JCondition(JStr(s_expression), JAbsent, JExpression(JInstr0(s_ldtrue))),
                        << JInstr0(s_break), JInstr0(s_nop) >>),
                 JLdLoc(s_i), JLdI4(2), JInstr0(s_ceq),
                 JIf(<< JInstr0(s_continue), JInstr0(s_nop) >>, << >>),
                 JLdLoc(s_i), JLdI4(4), JInstr0(s_ceq),
                 JIf(<< JInstr0(s_break), JInstr0(s_nop) >>, << >>),
                 JLdStr(s_x), JWriteLine(s_call, <<s_string>>, s_void) >>),
       JLdLoc(s_i), JInstr0(s_ret) >>

\* Base.Set and Base.Get: the field f of this, with no instance on the stack
JSet == << JLdArg(s_a), JField(s_stfld, s_f), JInstr0(s_ret) >>

JGet == << JField(s_ldfld, s_f), JInstr0(s_ret) >>

\* newobj Base; Set(42); Get()
JFields ==
    << JNewObj(s_Base), JInstr0(s_dup), JLdI4(42),
       JInstr(s_callvirt, JCall(s_Base, s_Set, <<s_int32>>, s_void)),
       JInstr(s_callvirt, JCall(s_Base, s_Get, <<>>, s_int32)),
       JInstr0(s_ret) >>

\* field access in a static frame with no object on the stack
JLoadStatic == << JField(s_ldfld, s_f), JInstr0(s_ret) >>

JStoreStatic == << JLdI4(1), JField(s_stfld, s_f), JInstr0(s_ret) >>

\* Console.WriteLine with no argument, with a null and an int32, and with a
\* string and a null
JLines ==
    << JWriteLine(s_call, <<>>, s_void),
       JInstr0(s_ldnull), JLdI4(7),
       JWriteLine(s_callvirt, <<s_object, s_int32>>, s_void),
       JLdStr(s_a), JInstr0(s_ldnull),
       JWriteLine(s_call, <<s_string, s_object>>, s_void),
       JInstr0(s_ret) >>

\* a / b, then a line of output
JQuotient ==
    << JLdArg(s_a), JLdArg(s_b), JInstr0(s_div), JLdStr(s_x),
       JWriteLine(s_call, <<s_string>>, s_void), JInstr0(s_ret) >>

\* throw, which the executor does not support
JRaise == << JLdStr(s_x), JInstr0(s_throw), JInstr0(s_ret) >>

\* a call of the static Base.V, which has neither instructions nor a native body
JStub == << JInstr(s_call, JCall(s_Base, s_V, <<>>, s_void)), JInstr0(s_ret) >>

\* a branch over one instruction
JJump == << JInstr(s_br, JTarget(JInt(2))), JInstr0(s_nop), JInstr0(s_ret) >>

\* break and continue with no loop around them in the method
JEscape == << JInstr0(s_break), JInstr0(s_ret) >>

JAgain == << JInstr0(s_continue), JInstr0(s_ret) >>

\* loops whose bodies call them: i := 0; while i < 2 do { i := i + 1; Again();
\* write "x" }; while true do { Escape(); write "x" }; return i
JCrossing ==
    << JLdI4(0), JStLoc(s_i), JLdLoc(s_i), JLdI4(2),
       JWhile(JBinary(s_clt),
              << JLdLoc(s_i), JLdI4(1), JInstr0(s_add), JStLoc(s_i),
                 JInstr(s_call, JCall(s_Program, s_Again, <<>>, s_void)),
                 JLdStr(s_x), JWriteLine(s_call, <<s_string>>, s_void) >>),
       JWhile(JCondition(JStr(s_expression), JAbsent, JExpression(JInstr0(s_ldtrue))),
              << JInstr(s_call, JCall(s_Program, s_Escape, <<>>, s_void)),
                 JLdStr(s_x), JWriteLine(s_call, <<s_string>>, s_void) >>),
       JLdLoc(s_i), JInstr0(s_ret) >>

\* a failing call inside an if inside a loop: while true do { if true then
\* { write "x"; Raise(); write "x" } }; write "x"
JGuarded ==
    << JWhile(JCondition(JStr(s_expression), JAbsent, JExpression(JInstr0(s_ldtrue))),
              << JInstr0(s_ldtrue),
                 JIf(<< JLdStr(s_x), JWriteLine(s_call, <<s_string>>, s_void),
                        JInstr(s_call, JCall(s_Program, s_Raise, <<>>, s_void)),
                        JLdStr(s_x), JWriteLine(s_call, <<s_string>>, s_void) >>,
                     << >>) >>),
       JLdStr(s_x), JWriteLine(s_call, <<s_string>>, s_void), JInstr0(s_ret) >>

\* the counted loop of Count inside a then-block: i := 0; if true then
\* { while i < 10 do i := i + 1 }; return i
JNested ==
    << JLdI4(0), JStLoc(s_i), JInstr0(s_ldtrue),
       JIf(<< JLdLoc(s_i), JLdI4(10),
              JWhile(JBinary(s_clt),
                     << JLdLoc(s_i), JLdI4(1), JInstr0(s_add), JStLoc(s_i) >>) >>,
           << >>),
       JLdLoc(s_i), JInstr0(s_ret) >>

\* a static method that tests its receiver: if this then return 1 else return 0
JSelf ==
    << JLdArg(s_this), JInstr(s_brtrue, JTarget(JInt(4))), JLdI4(0), JInstr0(s_ret),
       JLdI4(1), JInstr0(s_ret) >>

\* neg applied to a string, then the end of the list
JNegString == << JLdI4(5), JLdStr(s_x), JInstr0(s_neg) >>

Param(name, type) == [name |-> name, type |-> type]

\* a method as the module file declares it: body is its JSON instruction array
LoadedMethod(name, returnType, isStatic, parameters, body, labelMap) ==
    [name |-> name, returnType |-> returnType, isStatic |-> isStatic,
     parameters |-> parameters, body |-> body, nativeImpl |-> "none",
     labelMap |-> labelMap, locals |-> <<>>]

\* the declaration with its "localVariables" array
WithLocals(decl, locals) == [decl EXCEPT !.locals = locals]

\* a method bound to a native implementation (RuntimeBuilder::NativeImpl)
NativeMethod(name, returnType, isStatic, parameters, impl) ==
    [name |-> name, returnType |-> returnType, isStatic |-> isStatic,
     parameters |-> parameters, body |-> <<>>, nativeImpl |-> impl, labelMap |-> {},
     locals |-> <<>>]

\* the Method object IRLoader::LoadMethods builds from a declaration
LoadMethod(decl) ==
    [name |-> decl.name, returnType |-> decl.returnType, isStatic |-> decl.isStatic,
     parameters |-> decl.parameters,
     instructions |-> CompileInstructions(decl.body).instructions,
     nativeImpl |-> decl.nativeImpl, labelMap |-> decl.labelMap,
     locals |-> decl.locals]

\* class ids, in registration order
NSFoo == 1

Foo == 2

Base == 3

Derived == 4

Program == 5

IShape == 6

INamed == 7

\* a class as RuntimeBuilder or the loader builds it
ClassDecl(name, namespace, baseClass, interfaces, fields, methodIds) ==
    [name |-> name, namespace |-> namespace, baseClass |-> baseClass,
     interfaces |-> interfaces, fields |-> fields, methods |-> methodIds]

ModuleClasses ==
    << ClassDecl(s_Foo, s_NS, NoClass, <<>>, <<>>, <<>>),
       ClassDecl(s_Foo, <<>>, NoClass, <<>>, <<>>, <<>>),
       ClassDecl(s_Base, <<>>, NoClass, <<IShape>>, <<s_f>>, <<8, 9, 10, 17, 18>>),
       ClassDecl(s_Derived, <<>>, Base, <<INamed>>, <<s_g>>, <<11, 12>>),
       ClassDecl(s_Program, <<>>, NoClass, <<>>, <<>>,
                 <<1, 2, 3, 4, 5, 6, 7, 13, 14, 15, 16, 19, 20, 21, 22, 23, 24, 25,
                   26, 27, 28, 29, 30, 31, 32>>),
       ClassDecl(s_IShape, <<>>, NoClass, <<>>, <<>>, <<>>),
       ClassDecl(s_INamed, <<>>, NoClass, <<>>, <<>>, <<>>) >>

MethodDeclarations ==
    << LoadedMethod(s_Main, PrimType("Void"), TRUE, <<>>, JMainLoaded,
                    {[label |-> s_end, index |-> 3]}),
       NativeMethod(s_Patch, PrimType("Void"), TRUE, <<>>, "Patch"),
       LoadedMethod(s_F, PrimType("Int32"), TRUE,
                    <<Param(s_a, PrimType("Int32"))>>, JReturn(1), {}),
       LoadedMethod(s_F, PrimType("Int32"), TRUE,
                    <<Param(s_a, PrimType("String"))>>, JReturn(2), {}),
       LoadedMethod(s_H, PrimType("Int32"), TRUE,
                    <<Param(s_a, ClassType(Foo))>>, JReturn(1), {}),
       LoadedMethod(s_H, PrimType("Int32"), TRUE,
                    <<Param(s_a, ClassType(NSFoo))>>, JReturn(2), {}),
       LoadedMethod(s_K, PrimType("Int32"), TRUE,
                    <<Param(s_a, PrimType("Int32")), Param(s_b, PrimType("String"))>>,
                    <<JLdArg(s_a), JInstr0(s_ret)>>, {}),
       LoadedMethod(s_G, PrimType("Int32"), FALSE,
                    <<Param(s_a, PrimType("Int32"))>>, JReturn(1), {}),
       LoadedMethod(s_Inst, PrimType("Void"), FALSE, <<>>, JResidual, {}),
       LoadedMethod(s_V, PrimType("Void"), TRUE, <<>>, <<>>, {}),
       LoadedMethod(s_G, PrimType("Int32"), FALSE,
                    <<Param(s_a, PrimType("Int32"))>>, JReturn(2), {}),
       LoadedMethod(s_Own, PrimType("Int32"), FALSE,
                    <<Param(s_a, PrimType("Int32")), Param(s_b, PrimType("Int32"))>>,
                    <<JLdArg(s_b), JInstr0(s_ret)>>, {}),
       WithLocals(LoadedMethod(s_Arith, PrimType("Int32"), TRUE,
                               <<Param(s_a, PrimType("Int32"))>>, JArith, {}),
                  <<s_i>>),
       LoadedMethod(s_NegString, PrimType("Int32"), TRUE, <<>>, JNegString, {}),
       WithLocals(LoadedMethod(s_Count, PrimType("Int32"), TRUE, <<>>, JCount, {}),
                  <<s_i>>),
       WithLocals(LoadedMethod(s_Loop, PrimType("Int32"), TRUE, <<>>, JLoop, {}),
                  <<s_i>>),
       LoadedMethod(s_Set, PrimType("Void"), FALSE,
                    <<Param(s_a, PrimType("Int32"))>>, JSet, {}),
       LoadedMethod(s_Get, PrimType("Int32"), FALSE, <<>>, JGet, {}),
       LoadedMethod(s_Fields, PrimType("Int32"), TRUE, <<>>, JFields, {}),
       LoadedMethod(s_LoadStatic, PrimType("Int32"), TRUE, <<>>, JLoadStatic, {}),
       LoadedMethod(s_StoreStatic, PrimType("Int32"), TRUE, <<>>, JStoreStatic, {}),
       LoadedMethod(s_Lines, PrimType("Void"), TRUE, <<>>, JLines, {}),
       LoadedMethod(s_Quotient, PrimType("Int32"), TRUE,
                    <<Param(s_a, PrimType("Int32")), Param(s_b, PrimType("Int32"))>>,
                    JQuotient, {}),
       LoadedMethod(s_Raise, PrimType("Void"), TRUE, <<>>, JRaise, {}),
       LoadedMethod(s_Stub, PrimType("Void"), TRUE, <<>>, JStub, {}),
       LoadedMethod(s_Jump, PrimType("Void"), TRUE, <<>>, JJump, {}),
       LoadedMethod(s_Escape, PrimType("Void"), TRUE, <<>>, JEscape, {}),
       LoadedMethod(s_Again, PrimType("Void"), TRUE, <<>>, JAgain, {}),
       WithLocals(LoadedMethod(s_Crossing, PrimType("Int32"), TRUE, <<>>, JCrossing, {}),
                  <<s_i>>),
       LoadedMethod(s_Guarded, PrimType("Void"), TRUE, <<>>, JGuarded, {}),
       WithLocals(LoadedMethod(s_Nested, PrimType("Int32"), TRUE, <<>>, JNested, {}),
                  <<s_i>>),
       LoadedMethod(s_Self, PrimType("Int32"), TRUE, <<>>, JSelf, {}) >>

ModuleMethods == [m \in DOMAIN MethodDeclarations |-> LoadMethod(MethodDeclarations[m])]

RECURSIVE RegisterAll(_, _)
RegisterAll(clss, n) ==
    IF n = 0 THEN {}
    ELSE RegisterClass(RegisterAll(clss, n - 1), n, clss[n])

(***************************************************************************)
(* The interpreter state as one record, so that an invocation, the native  *)
(* code it runs and the return to its caller compose into one step.        *)
(***************************************************************************)
Cur ==
    [methods |-> methods, heap |-> heap, callStack |-> callStack,
     contextStack |-> contextStack, currentContext |-> currentContext,
     output |-> output, hostResult |-> hostResult, lastError |-> lastError,
     hostCalls |-> hostCalls, installed |-> installed, fetched |-> fetched,
     lastInvoke |-> lastInvoke, lastReturn |-> lastReturn,
     lastDispatch |-> lastDispatch, lastCall |-> lastCall, lastBranch |-> lastBranch,
     lastExec |-> lastExec]

Becomes(T) ==
    /\ methods' = T.methods
    /\ heap' = T.heap
    /\ callStack' = T.callStack
    /\ contextStack' = T.contextStack
    /\ currentContext' = T.currentContext
    /\ output' = T.output
    /\ hostResult' = T.hostResult
    /\ lastError' = T.lastError
    /\ hostCalls' = T.hostCalls
    /\ installed' = T.installed
    /\ fetched' = T.fetched
    /\ lastInvoke' = T.lastInvoke
    /\ lastReturn' = T.lastReturn
    /\ lastDispatch' = T.lastDispatch
    /\ lastCall' = T.lastCall
    /\ lastBranch' = T.lastBranch
    /\ lastExec' = T.lastExec
    /\ UNCHANGED <<classes, registry, resolveIn, resolveOut, plugins, openCount,
                   pluginLog, destroyed, registered, typeName, operands, evaluated, normalized,
                   exitStatus>>

\* the class and its base classes, most derived first
RECURSIVE BaseChain(_)
BaseChain(cls) ==
    IF cls = NoClass THEN <<>> ELSE <<cls>> \o BaseChain(classes[cls].baseClass)

\* Object::InitializeFieldSlot: a slot that exists keeps its value
InitializeFieldSlot(fieldValues, fieldName) ==
    IF fieldName \in DOMAIN fieldValues THEN fieldValues
    ELSE [n \in DOMAIN fieldValues \cup {fieldName} |->
            IF n = fieldName THEN Null ELSE fieldValues[n]]

RECURSIVE InitializeFieldSlots(_, _)
InitializeFieldSlots(fieldValues, fieldNames) ==
    IF fieldNames = <<>> THEN fieldValues
    ELSE InitializeFieldSlots(InitializeFieldSlot(fieldValues, fieldNames[1]),
                              SubSeq(fieldNames, 2, Len(fieldNames)))

\* the fields of every class of the chain, in the order CreateInstance visits them
RECURSIVE FieldsOfChain(_)
FieldsOfChain(chain) ==
    IF chain = <<>> THEN <<>>
    ELSE classes[chain[1]].fields \o FieldsOfChain(SubSeq(chain, 2, Len(chain)))

\* an instance with slots for the fields of its own class only
CreateInstanceMutant(cls) ==
    [cls |-> cls, fieldValues |-> InitializeFieldSlots(<<>>, classes[cls].fields)]
\* Class::CreateInstance
CreateInstance(cls) ==
    [cls |-> cls, fieldValues |-> InitializeFieldSlots(<<>>, FieldsOfChain(BaseChain(cls)))]

\* Object::SetField
SetField(object, fieldName, value) ==
    [object EXCEPT !.fieldValues =
        [n \in DOMAIN @ \cup {fieldName} |-> IF n = fieldName THEN value ELSE @[n]]]

HasField(object, fieldName) == fieldName \in DOMAIN object.fieldValues

\* Object::GetField, where the field is found
GetField(object, fieldName) == object.fieldValues[fieldName]

\* Class::ImplementsInterface
ImplementsInterface(cls, interfaceType) ==
    \E i \in DOMAIN classes[cls].interfaces : classes[cls].interfaces[i] = interfaceType

\* Object::IsInstanceOf
IsInstanceOf(object, classType) ==
    \/ classType \in Range(BaseChain(object.cls))
    \/ ImplementsInterface(object.cls, classType)

\* what a host-level call produced: a Value, an exception, or an ABI status code
\* what an out-parameter for JSON text holds when nothing was written to it
NoJson == [fullName |-> <<>>, methods |-> <<>>]

NoResult == [kind |-> "none", value |-> Null, error |-> "none", json |-> NoJson]

Returned(value) == [NoResult EXCEPT !.kind = "value", !.value = value]

Failure(error) == [NoResult EXCEPT !.kind = "error", !.error = error]

Status(code) == [NoResult EXCEPT !.kind = "status", !.value = Int32V(code)]

\* an exception leaves every ExecuteInstructions activation; no frame is popped
\* from the VM's context stack on the way out
ThrowMutant(S, error) ==
    [S EXCEPT !.callStack = SubSeq(@, 1, Len(@) - 1), !.hostResult = Failure(error)]

Throw(S, error) == [S EXCEPT !.callStack = <<>>, !.hostResult = Failure(error)]

\* Method::SetInstructions
SetInstructions(method, instructions) == [method EXCEPT !.instructions = instructions]

\* Method::SetNativeImpl
SetNativeImpl(method, impl) == [method EXCEPT !.nativeImpl = impl]

NotInstalled == [done |-> FALSE, list |-> <<>>]

\* ObjectIR_PluginReplaceMethodInstructionsJson (bySignature = FALSE) and
\* ObjectIR_PluginReplaceMethodInstructionsJsonBySignature (bySignature = TRUE):
\* the method they find
ReplaceTarget(req) ==
    With(FindClass(req.className), LAMBDA cls :
        IF ~cls.ok THEN ResolveFailed("ClassNotFound")
        ELSE IF req.bySignature
             THEN FindMethodBySignatureOrThrow(cls.cls, req.methodName, req.parameterTypes)
             ELSE FindMethodUniqueNameOrThrow(cls.cls, req.methodName))

\* the thread's last error message: "none" is the empty string
SetLastError(S, msg) == [S EXCEPT !.lastError = msg]

ClearLastErrorMutant(S) == S

ClearLastError(S) == [S EXCEPT !.lastError = "none"]

\* the null-pointer check every status-returning function starts with
InvalidArguments(S) == [status |-> 0, state |-> SetLastError(S, "InvalidArguments")]

\* a replace that empties the body when a node fails to decode
ReplaceMethodInstructionsMutant(S, req) ==
    With(ClearLastError(S), LAMBDA T :
    With(ReplaceTarget(req), LAMBDA m :
    With(CompileInstructions(req.body), LAMBDA compiled :
        IF ~req.given THEN InvalidArguments(S)
        ELSE IF ~m.ok THEN [status |-> 0, state |-> SetLastError(T, m.error)]
        ELSE IF ~req.isArray
        THEN [status |-> 0, state |-> SetLastError(T, "NotArray")]
        ELSE IF ~compiled.ok
        THEN [status |-> 0,
              state |-> [SetLastError(T, "BadOpcode") EXCEPT
                !.methods[m.method] = SetInstructions(@, <<>>)]]
        ELSE [status |-> 1,
              state |-> [T EXCEPT
                !.methods[m.method] = SetInstructions(@, compiled.instructions),
                !.installed[m.method] =
                    [done |-> TRUE, list |-> compiled.instructions]]])))

\* the state after the call, and the status code it returns
ReplaceMethodInstructions(S, req) ==
    With(ClearLastError(S), LAMBDA T :
    With(ReplaceTarget(req), LAMBDA m :
    With(CompileInstructions(req.body), LAMBDA compiled :
        IF ~req.given THEN InvalidArguments(S)
        ELSE IF ~m.ok THEN [status |-> 0, state |-> SetLastError(T, m.error)]
        ELSE IF ~req.isArray
        THEN [status |-> 0, state |-> SetLastError(T, "NotArray")]
        ELSE IF ~compiled.ok
        THEN [status |-> 0, state |-> SetLastError(T, "BadOpcode")]
        ELSE [status |-> 1,
              state |-> [T EXCEPT
                !.methods[m.method] = SetInstructions(@, compiled.instructions),
                !.installed[m.method] =
                    [done |-> TRUE, list |-> compiled.instructions]]])))

\* ObjectIR_PluginGetAllClassNamesJson: outJson is the pointer the names go to
GetAllClassNamesJson(S, outJson) ==
    IF outJson = "null" THEN InvalidArguments(S)
    ELSE [status |-> 1, state |-> ClearLastError(S)]

\* VirtualMachine::ExportClassMetadata, for a name GetClass finds: the keys of the
\* type object that identify it and, per method, its name and instructions
ExportClassMetadata(S, name, includeInstructions) ==
    With(GetClass(name).cls, LAMBDA classRef :
        [fullName |-> GetQualifiedClassName(classes[classRef]),
         methods |-> [i \in DOMAIN classes[classRef].methods |->
            With(S.methods[classes[classRef].methods[i]], LAMBDA method :
                [name |-> method.name,
                 instructions |->
                    IF includeInstructions /\ method.instructions # <<>>
                    THEN SerializeInstructionBlock(method.instructions, TRUE)
                    ELSE NoJArray])]])

\* ObjectIR_PluginGetClassMetadataJson: the class is found by FindClass and then
\* exported under its qualified name, which GetClass looks up again
GetClassMetadataJson(S, className, includeInstructions, outJson) ==
    With(ClearLastError(S), LAMBDA T :
    With(FindClass(className), LAMBDA cls :
        IF outJson = "null" THEN InvalidArguments(S)
        ELSE IF ~cls.ok THEN [status |-> 0, state |-> SetLastError(T, "ClassNotFound")]
        ELSE IF ~GetClass(GetQualifiedClassName(classes[cls.cls])).ok
        THEN [status |-> 0, state |-> SetLastError(T, "ClassNotFound")]
        ELSE [status |-> 1,
              state |-> [T EXCEPT !.hostResult.json =
                            ExportClassMetadata(T,
                                GetQualifiedClassName(classes[cls.cls]),
                                includeInstructions)]]))

\* the request the native Program.Patch makes of the plugin API
PatchRequest ==
    [className |-> s_Program, methodName |-> s_Main, bySignature |-> FALSE,
     parameterTypes |-> <<>>, body |-> JPatchBody, given |-> TRUE, isArray |-> TRUE]

\* the native implementations: what each does to the VM and what it returns
NativeEffect(S, impl) ==
    IF impl = "Patch" THEN ReplaceMethodInstructions(S, PatchRequest).state ELSE S

NativeResult(impl) == IF impl = "Const" THEN Int32V(9) ELSE Null

\* the call a frame was entered by: the caller's local isVoidReturn, and for the
\* record the opcode, the argument count and the caller's depth before the call
HostCall == [op |-> "Host", n |-> 0, isVoidReturn |-> TRUE, depthBefore |-> 0]

NoCall == [done |-> FALSE, op |-> "None", n |-> 0, isVoidReturn |-> TRUE,
           console |-> FALSE, before |-> 0, after |-> 0]

\* an ExecutionContext and the ExecuteInstructions activation that runs it.
\* blocks holds the nested Execute activations of If and While, outermost first:
\* each the list it iterates over, its position and the While it belongs to
Frame(m, this, args, path, call) ==
    [method |-> m, ip |-> 0, stack |-> <<>>, arguments |-> args, this |-> this,
     path |-> path, call |-> call, snapshot |-> methods[m].instructions,
     jumped |-> FALSE, jumpWay |-> "none", jumpIndex |-> 0,
     locals |-> [i \in DOMAIN methods[m].locals |-> Null], blocks |-> <<>>]

\* the position after the instruction just executed: the dispatch loop's ++ip, or
\* the next element of the block the innermost Execute iterates over
Advance(frame, stack) ==
    IF frame.blocks = <<>>
    THEN [frame EXCEPT !.stack = stack, !.ip = @ + 1, !.jumped = FALSE]
    ELSE [frame EXCEPT !.stack = stack, !.blocks[Len(frame.blocks)].ip = @ + 1]

\* the value an invoke function hands back reaches its caller: the host, or the
\* Call/CallVirt case of Execute, which pushes it unless the target returns void
Deliver(S, frames, result, call) ==
    IF frames = <<>>
    THEN [S EXCEPT !.callStack = <<>>, !.hostResult = Returned(result)]
    ELSE LET caller == frames[Len(frames)]
             stack  == IF call.isVoidReturn THEN caller.stack
                       ELSE Append(caller.stack, result)
         IN  [S EXCEPT
                !.callStack = [frames EXCEPT ![Len(frames)] = Advance(caller, stack)],
                !.lastCall = [done |-> TRUE, op |-> call.op, n |-> call.n,
                              isVoidReturn |-> call.isVoidReturn, console |-> FALSE,
                              before |-> call.depthBefore, after |-> Len(stack)]]

BodyForm(m) ==
    IF HasNativeImpl(m) THEN "native"
    ELSE IF HasInstructions(m) THEN "instructions"
    ELSE "none"

\* the part the four invoke functions share once the method is found: the native
\* implementation if there is one, else a frame over the instructions, else failure
Invoke(S, frames, m, this, args, path, call) ==
    LET S1 == [S EXCEPT !.lastInvoke =
                  [method |-> m, form |-> BodyForm(m), path |-> path, this |-> this,
                   body |-> methods[m].instructions,
                   replaced |-> S.installed[m].done,
                   replacement |-> S.installed[m].list]]
    IN  IF HasNativeImpl(m)
        THEN Deliver(NativeEffect(S1, methods[m].nativeImpl), frames,
                     NativeResult(methods[m].nativeImpl), call)
        ELSE IF HasInstructions(m)
        THEN [S1 EXCEPT !.callStack = Append(frames, Frame(m, this, args, path, call)),
                        !.contextStack = Append(@, S.currentContext),
                        !.currentContext = m]
        ELSE Throw(S1, "Unimplemented")

\* VirtualMachine::PopContext
PopContext(S) ==
    IF S.contextStack # <<>>
    THEN [S EXCEPT !.currentContext = S.contextStack[Len(S.contextStack)],
                   !.contextStack = SubSeq(@, 1, Len(@) - 1)]
    ELSE [S EXCEPT !.currentContext = NoMethod]

\* an invoke function that hands back whatever ExecuteInstructions returned
VoidAdjustedMutant(m, result) == result
\* the void check the invoke functions make after ExecuteInstructions returns
VoidAdjusted(m, result) == IF ReturnsVoid(m) THEN Null ELSE result

(***************************************************************************)
(* InstructionExecutor::ExecuteInstructions, one dispatch-loop iteration   *)
(* per step, on the innermost activation.                                  *)
(***************************************************************************)
Top == callStack[Len(callStack)]

Callers == SubSeq(callStack, 1, Len(callStack) - 1)

\* `instructions` is a reference to the method's own vector: what the loop reads
\* is the list the method holds now
Instructions(frame) == methods[frame.method].instructions

InstructionAt(list, ip) == IF ip < Len(list) THEN list[ip + 1] ELSE NoInstruction

Front(seq) == SubSeq(seq, 1, Len(seq) - 1)

Last(seq) == seq[Len(seq)]

\* the frame is inside the then/else block of an If or the condition or body of a
\* While: the instruction is run by a nested Execute, not by the dispatch loop
InBlock(frame) == frame.blocks # <<>>

\* the loop's read of instructions[ip], or the element a nested Execute has
\* reached in its block; NoInstruction once the position is past the end
Fetch(frame) ==
    IF InBlock(frame)
    THEN InstructionAt(Last(frame.blocks).list, Last(frame.blocks).ip)
    ELSE InstructionAt(Instructions(frame), frame.ip)

Fetched(S, frame) ==
    [S EXCEPT !.fetched =
        [method |-> frame.method, ip |-> frame.ip, cur |-> Fetch(frame),
         old |-> IF InBlock(frame) THEN Fetch(frame)
                 ELSE InstructionAt(frame.snapshot, frame.ip),
         swapped |-> frame.snapshot # Instructions(frame),
         jumped |-> frame.jumped /\ ~InBlock(frame), jumpWay |-> frame.jumpWay,
         jumpIndex |-> frame.jumpIndex]]

\* the innermost frame replaced by frame
WithTop(S, frame) == [S EXCEPT !.callStack = Append(Callers, frame)]

Pushed(frame, v) == Advance(frame, Append(frame.stack, v))

\* the index _parameterIndices holds for name (the last parameter so named), 0 if none
ParameterIndex(m, name) ==
    LET hits == {i \in DOMAIN methods[m].parameters : methods[m].parameters[i].name = name}
    IN  IF hits = {} THEN 0 ELSE SetMax(hits)

SimpleOpCodes ==
    {"Nop", "Dup", "Pop", "LdArg", "StArg", "LdCon", "LdStr", "LdI4", "LdI8",
     "LdTrue", "LdFalse", "LdNull", "NewObj"}

Done(S) == [ok |-> TRUE, error |-> "none", state |-> S]

Raised(S, error) == [ok |-> FALSE, error |-> error, state |-> S]

\* Execute for the opcodes that touch only the frame and the heap
ExecuteSimple(S, frame, instr) ==
    LET stack == frame.stack
        op    == instr.opCode
        idx   == ParameterIndex(frame.method, instr.identifier)
        const == CreateConstantValue(instr)
        cls   == GetClass(instr.operandString)
    IN  CASE op = "Nop" -> Done(WithTop(S, Advance(frame, stack)))
          [] op = "Dup" ->
                IF stack = <<>> THEN Raised(S, "StackUnderflow")
                ELSE Done(WithTop(S, Pushed(frame, Last(stack))))
          [] op = "Pop" ->
                IF stack = <<>> THEN Raised(S, "StackUnderflow")
                ELSE Done(WithTop(S, Advance(frame, Front(stack))))
          [] op = "LdArg" ->
                IF instr.identifier = s_this
                THEN Done(WithTop(S, Pushed(frame, ObjV(frame.this))))
                ELSE IF idx = 0 THEN Raised(S, "ArgumentNotFound")
                ELSE IF idx > Len(frame.arguments) THEN Raised(S, "OutOfRange")
                ELSE Done(WithTop(S, Pushed(frame, frame.arguments[idx])))
          [] op = "StArg" ->
                IF stack = <<>> THEN Raised(S, "StackUnderflow")
                ELSE IF idx = 0 THEN Raised(S, "ArgumentNotFound")
                ELSE Done(WithTop(S,
                        [Advance(frame, Front(stack)) EXCEPT !.arguments =
                            [i \in 1..(IF idx > Len(@) THEN idx ELSE Len(@)) |->
                                IF i = idx THEN Last(stack)
                                ELSE IF i <= Len(@) THEN @[i] ELSE Null]]))
          [] op \in {"LdCon", "LdStr"} ->
                IF ~const.ok THEN Raised(S, "BadConstant")
                ELSE Done(WithTop(S, Pushed(frame, const.v)))
          [] op = "LdI4" -> Done(WithTop(S, Pushed(frame, Int32V(instr.operandInt))))
          [] op = "LdI8" -> Done(WithTop(S, Pushed(frame, Int64V(instr.operandInt))))
          [] op = "LdTrue" -> Done(WithTop(S, Pushed(frame, BoolV(TRUE))))
          [] op = "LdFalse" -> Done(WithTop(S, Pushed(frame, BoolV(FALSE))))
          [] op = "LdNull" -> Done(WithTop(S, Pushed(frame, Null)))
          [] op = "NewObj" ->
                IF instr.operandString = <<>> THEN Raised(S, "MissingOperand")
                ELSE IF ~cls.ok THEN Raised(S, "ClassNotFound")
                ELSE Done([WithTop(S, Pushed(frame, ObjV(Len(S.heap) + 1)))
                            EXCEPT !.heap = Append(@, CreateInstance(cls.cls))])
          [] OTHER -> Raised(S, "Unsupported")

Settle(outcome) ==
    IF outcome.ok THEN outcome.state ELSE Throw(outcome.state, outcome.error)

\* resolveTarget: the index a taken branch moves ip to, by the integer operand, by
\* the label map, or by the operand string read as a decimal
LabelIndex(labelMap, label) == (CHOOSE e \in labelMap : e.label = label).index

IsLabel(labelMap, label) == \E e \in labelMap : e.label = label

InRange(target, size) == target >= 0 /\ target < size

BranchTo(way, target) == [ok |-> TRUE, way |-> way, target |-> target]

BadBranchTarget(way, target) == [ok |-> FALSE, way |-> way, target |-> target]

ResolveTarget(instr, labelMap, size) ==
    LET parsed == Stoi(instr.operandString)
    IN  IF instr.hasOperandInt
        THEN IF InRange(instr.operandInt, size) THEN BranchTo("int", instr.operandInt)
             ELSE BadBranchTarget("int", instr.operandInt)
        ELSE IF instr.operandString # <<>>
        THEN IF IsLabel(labelMap, instr.operandString)
             THEN BranchTo("label", LabelIndex(labelMap, instr.operandString))
             ELSE IF ~parsed.ok THEN BadBranchTarget("string", 0 - 1)
             ELSE IF InRange(parsed.val, size) THEN BranchTo("string", parsed.val)
             ELSE BadBranchTarget("string", parsed.val)
        ELSE BadBranchTarget("none", 0 - 1)

IsInteger(v) == v.t \in {"int32", "int64"}


(***************************************************************************)
(* Arithmetic and comparison: ExecuteAdd .. ExecuteCge.                    *)
(***************************************************************************)
IsString(v) == v.t = "string"

IsFloat(v) == v.t \in {"float32", "float64"}

IsNumeric(v) == IsInteger(v) \/ IsFloat(v)

\* the double a Value converts to, as a rational
AsRational(v) == [num |-> v.i, den |-> v.den]

IsNaN(r) == r.den = 0 /\ r.num = 0

\* InstructionExecutor::ValueToDouble: defined for the four numeric variants
ValueToDouble(v) == [ok |-> IsNumeric(v), r |-> AsRational(v)]

\* the integer a double is cast to: truncation toward zero
Truncated(r) == Sign(r.num) * (Abs(r.num) \div r.den)

\* InstructionExecutor::ValueToInt64; the cast of an infinity or NaN is undefined
ValueToInt64(v) ==
    [ok |-> IsNumeric(v), undefined |-> IsFloat(v) /\ v.den = 0,
     n |-> IF IsFloat(v) /\ v.den # 0 THEN Truncated(AsRational(v)) ELSE v.i]

RAdd(a, b) == Rational(a.num * b.den + b.num * a.den, a.den * b.den)

RSub(a, b) == Rational(a.num * b.den - b.num * a.den, a.den * b.den)

RMul(a, b) == Rational(a.num * b.num, a.den * b.den)

RDiv(a, b) == Rational(a.num * b.den, a.den * b.num)

REq(a, b) == ~IsNaN(a) /\ ~IsNaN(b) /\ a = b

RLess(a, b) ==
    /\ ~IsNaN(a)
    /\ ~IsNaN(b)
    /\ IF a.den = 0 /\ b.den = 0 THEN a.num < b.num
       ELSE a.num * b.den < b.num * a.den

\* C++ integer division and remainder: the quotient is truncated toward zero
CDiv(a, b) == Sign(a) * Sign(b) * (Abs(a) \div Abs(b))

CRem(a, b) == a - b * CDiv(a, b)

ArithmeticOpCodes == {"Add", "Sub", "Mul", "Div", "Rem", "Neg"}

ComparisonOpCodes == {"Ceq", "Cne", "Clt", "Cle", "Cgt", "Cge"}

\* what an Execute function leaves behind: a value to push, nothing to push, an
\* exception, or an operation whose behaviour the language leaves undefined
Push(v) == [kind |-> "push", v |-> v, error |-> "none"]

PushNothing == [kind |-> "nothing", v |-> Null, error |-> "none"]

Fail(error) == [kind |-> "error", v |-> Null, error |-> error]

Undefined == [kind |-> "undefined", v |-> Null, error |-> "none"]

IntegerOp(op, a, b) ==
    CASE op = "Add" -> a + b
      [] op = "Sub" -> a - b
      [] op = "Mul" -> a * b
      [] op = "Div" -> CDiv(a, b)
      [] OTHER      -> CRem(a, b)

DoubleOp(op, a, b) ==
    CASE op = "Add" -> RAdd(a, b)
      [] op = "Sub" -> RSub(a, b)
      [] op = "Mul" -> RMul(a, b)
      [] OTHER      -> RDiv(a, b)

\* a rule that keeps float32 for two float32 operands
NumericOpMutant(op, a, b) ==
    IF a.t = "int32" /\ b.t = "int32"
    THEN IF op = "Rem" /\ b.i = 0 THEN Undefined
         ELSE Push(Int32V(IntegerOp(op, a.i, b.i)))
    ELSE IF a.t = "int64" \/ b.t = "int64"
    THEN IF ~ValueToInt64(a).ok \/ ~ValueToInt64(b).ok THEN Fail("TypeMismatch")
         ELSE IF ValueToInt64(a).undefined \/ ValueToInt64(b).undefined
                 \/ (op \in {"Div", "Rem"} /\ ValueToInt64(b).n = 0)
         THEN Undefined
         ELSE Push(Int64V(IntegerOp(op, ValueToInt64(a).n, ValueToInt64(b).n)))
    ELSE IF op = "Rem" THEN Fail("Unsupported")
    ELSE IF ~ValueToDouble(a).ok \/ ~ValueToDouble(b).ok THEN Fail("TypeMismatch")
    ELSE IF a.t = "float32" /\ b.t = "float32"
    THEN Push(Float32V(DoubleOp(op, ValueToDouble(a).r, ValueToDouble(b).r)))
    ELSE Push(Float64V(DoubleOp(op, ValueToDouble(a).r, ValueToDouble(b).r)))

\* the three numeric cases ExecuteAdd, ExecuteSub, ExecuteMul, ExecuteDiv and
\* ExecuteRem share: int32 with int32, int64 if either is, double otherwise
NumericOp(op, a, b) ==
    IF a.t = "int32" /\ b.t = "int32"
    THEN IF op = "Rem" /\ b.i = 0 THEN Undefined
         ELSE Push(Int32V(IntegerOp(op, a.i, b.i)))
    ELSE IF a.t = "int64" \/ b.t = "int64"
    THEN IF ~ValueToInt64(a).ok \/ ~ValueToInt64(b).ok THEN Fail("TypeMismatch")
         ELSE IF ValueToInt64(a).undefined \/ ValueToInt64(b).undefined
                 \/ (op \in {"Div", "Rem"} /\ ValueToInt64(b).n = 0)
         THEN Undefined
         ELSE Push(Int64V(IntegerOp(op, ValueToInt64(a).n, ValueToInt64(b).n)))
    ELSE IF op = "Rem" THEN Fail("Unsupported")
    ELSE IF ~ValueToDouble(a).ok \/ ~ValueToDouble(b).ok THEN Fail("TypeMismatch")
    ELSE Push(Float64V(DoubleOp(op, ValueToDouble(a).r, ValueToDouble(b).r)))

\* a division by an integer zero yields zero
BinaryArithmeticMutant(op, a, b) ==
    IF op = "Add" /\ (IsString(a) \/ IsString(b))
    THEN IF IsString(a) /\ IsString(b) THEN Push(StrV(a.s \o b.s))
         ELSE Fail("TypeMismatch")
    ELSE IF op = "Div" /\ IsInteger(b) /\ b.i = 0 THEN Push(Int32V(0))
    ELSE NumericOp(op, a, b)
\* ExecuteAdd .. ExecuteRem on the operands a (left) and b (right, popped first)
BinaryArithmetic(op, a, b) ==
    IF op = "Add" /\ (IsString(a) \/ IsString(b))
    THEN IF IsString(a) /\ IsString(b) THEN Push(StrV(a.s \o b.s))
         ELSE Fail("TypeMismatch")
    ELSE IF op = "Div" /\ IsInteger(b) /\ b.i = 0 THEN Fail("DivideByZero")
    ELSE NumericOp(op, a, b)

\* ExecuteNeg: an operand that is no number is popped and nothing is pushed
Negation(a) ==
    CASE a.t = "int32"   -> Push(Int32V(0 - a.i))
      [] a.t = "int64"   -> Push(Int64V(0 - a.i))
      [] a.t = "float32" -> Push(Float32V([num |-> 0 - a.i, den |-> a.den]))
      [] a.t = "float64" -> Push(Float64V([num |-> 0 - a.i, den |-> a.den]))
      [] OTHER           -> PushNothing

Ordering(op, less, equal) ==
    CASE op = "Ceq" -> equal
      [] op = "Cne" -> ~equal
      [] op = "Clt" -> less
      [] op = "Cle" -> less \/ equal
      [] op = "Cgt" -> ~less /\ ~equal
      [] OTHER      -> ~less

\* the comparison of two doubles; every ordered comparison with NaN is false
DoubleOrdering(op, a, b) ==
    CASE op = "Ceq" -> REq(a, b)
      [] op = "Cne" -> ~REq(a, b)
      [] op = "Clt" -> RLess(a, b)
      [] op = "Cle" -> RLess(a, b) \/ REq(a, b)
      [] op = "Cgt" -> RLess(b, a)
      [] OTHER      -> RLess(b, a) \/ REq(a, b)

\* ExecuteCeq .. ExecuteCge
Comparison(op, a, b) ==
    IF IsInteger(a) /\ IsInteger(b)
    THEN Push(BoolV(Ordering(op, a.i < b.i, a.i = b.i)))
    ELSE IF op \in {"Ceq", "Cne"} /\ IsString(a) /\ IsString(b)
    THEN Push(BoolV((a.s = b.s) = (op = "Ceq")))
    ELSE IF op \in {"Ceq", "Cne"} /\ a.t = "bool" /\ b.t = "bool"
    THEN Push(BoolV((a.i = b.i) = (op = "Ceq")))
    ELSE IF ~ValueToDouble(a).ok \/ ~ValueToDouble(b).ok THEN Fail("TypeMismatch")
    ELSE Push(BoolV(DoubleOrdering(op, ValueToDouble(a).r, ValueToDouble(b).r)))

\* the operands popped and the outcome of an arithmetic or comparison opcode
Operate(op, stack) ==
    IF op = "Neg"
    THEN IF stack = <<>> THEN Fail("StackUnderflow") ELSE Negation(Last(stack))
    ELSE IF Len(stack) < 2 THEN Fail("StackUnderflow")
    ELSE IF op \in ComparisonOpCodes
    THEN Comparison(op, stack[Len(stack) - 1], Last(stack))
    ELSE BinaryArithmetic(op, stack[Len(stack) - 1], Last(stack))

\* the stack below the operands of op
BelowOperands(op, stack) ==
    SubSeq(stack, 1, Len(stack) - (IF op = "Neg" THEN 1 ELSE 2))

\* what the build makes of an undefined operation: the process is ended by a
\* signal, or the operation yields some value
UndefinedOutcomes == {Fail("Crash"), Push(Int32V(0)), Push(Int32V(0 - 1))}

ExecuteArithmetic(S, frame, instr, whenUndefined) ==
    With(Operate(instr.opCode, frame.stack), LAMBDA result :
    With(IF result.kind = "undefined" THEN whenUndefined ELSE result, LAMBDA outcome :
        IF outcome.kind = "error" THEN Raised(S, outcome.error)
        ELSE IF outcome.kind = "nothing"
        THEN Done(WithTop(S, Advance(frame, BelowOperands(instr.opCode, frame.stack))))
        ELSE Done(WithTop(S, Advance(frame,
                Append(BelowOperands(instr.opCode, frame.stack), outcome.v))))))
(***************************************************************************)
(* The branch cases of the dispatch loop.                                  *)
(***************************************************************************)
\* the comparison opcode whose operator a two-operand branch applies
ComparisonOf(cmp) ==
    CASE cmp = "Beq" -> "Ceq"
      [] cmp = "Bne" -> "Cne"
      [] cmp = "Bgt" -> "Cgt"
      [] cmp = "Blt" -> "Clt"
      [] cmp = "Bge" -> "Cge"
      [] OTHER       -> "Cle"

\* a branch that compares integers only
CompareBranchMutant(cmp, left, right) ==
    LET bothInt == IsInteger(left) /\ IsInteger(right)
    IN  IF cmp \in {"Beq", "Bne"} /\ left.t = "string" /\ right.t = "string"
        THEN [ok |-> TRUE, cond |-> (left.s = right.s) = (cmp = "Beq")]
        ELSE IF cmp \in {"Beq", "Bne"} /\ left.t = "bool" /\ right.t = "bool"
        THEN [ok |-> TRUE, cond |-> (left.i = right.i) = (cmp = "Beq")]
        ELSE IF ~bothInt THEN [ok |-> FALSE, cond |-> FALSE]
        ELSE [ok |-> TRUE,
              cond |-> CASE cmp = "Beq" -> left.i = right.i
                         [] cmp = "Bne" -> left.i # right.i
                         [] cmp = "Bgt" -> left.i > right.i
                         [] cmp = "Blt" -> left.i < right.i
                         [] cmp = "Bge" -> left.i >= right.i
                         [] cmp = "Ble" -> left.i <= right.i
                         [] OTHER -> FALSE]

\* compareBranch: ok = FALSE when ValueToDouble rejects an operand
CompareBranch(cmp, left, right) ==
    LET bothInt == IsInteger(left) /\ IsInteger(right)
    IN  IF cmp \in {"Beq", "Bne"} /\ left.t = "string" /\ right.t = "string"
        THEN [ok |-> TRUE, cond |-> (left.s = right.s) = (cmp = "Beq")]
        ELSE IF cmp \in {"Beq", "Bne"} /\ left.t = "bool" /\ right.t = "bool"
        THEN [ok |-> TRUE, cond |-> (left.i = right.i) = (cmp = "Beq")]
        ELSE IF ~bothInt
        THEN IF ~ValueToDouble(left).ok \/ ~ValueToDouble(right).ok
             THEN [ok |-> FALSE, cond |-> FALSE]
             ELSE [ok |-> TRUE,
                   cond |-> DoubleOrdering(ComparisonOf(cmp), ValueToDouble(left).r,
                                           ValueToDouble(right).r)]
        ELSE [ok |-> TRUE,
              cond |-> CASE cmp = "Beq" -> left.i = right.i
                         [] cmp = "Bne" -> left.i # right.i
                         [] cmp = "Bgt" -> left.i > right.i
                         [] cmp = "Blt" -> left.i < right.i
                         [] cmp = "Bge" -> left.i >= right.i
                         [] cmp = "Ble" -> left.i <= right.i
                         [] OTHER -> FALSE]

\* the operands a branch pops and whether it is taken; ok = FALSE with the error
BranchCondition(instr, stack) ==
    LET op   == instr.opCode
        need == IF op = "Br" THEN 0 ELSE IF op \in {"BrTrue", "BrFalse"} THEN 1 ELSE 2
        cmp  == CompareBranch(op, stack[Len(stack) - 1], stack[Len(stack)])
        rest == SubSeq(stack, 1, Len(stack) - need)
    IN  IF Len(stack) < need
        THEN [ok |-> FALSE, error |-> "StackUnderflow", taken |-> FALSE, rest |-> <<>>]
        ELSE CASE op = "Br" ->
                    [ok |-> TRUE, error |-> "none", taken |-> TRUE, rest |-> rest]
               [] op = "BrTrue" ->
                    [ok |-> TRUE, error |-> "none", taken |-> ValueToBool(Last(stack)),
                     rest |-> rest]
               [] op = "BrFalse" ->
                    [ok |-> TRUE, error |-> "none", taken |-> ~ValueToBool(Last(stack)),
                     rest |-> rest]
               [] OTHER ->
                    IF ~cmp.ok
                    THEN [ok |-> FALSE, error |-> "TypeMismatch", taken |-> FALSE,
                          rest |-> rest]
                    ELSE [ok |-> TRUE, error |-> "none", taken |-> cmp.cond, rest |-> rest]

NoBranch ==
    [method |-> NoMethod, ip |-> 0, op |-> "None", outcome |-> "none", taken |-> FALSE,
     way |-> "none", target |-> 0, size |-> 0, next |-> 0,
     hasOperandInt |-> FALSE, operandInt |-> 0, isLabel |-> FALSE, labelIndex |-> 0]

\* the branch cases of the dispatch loop
ExecuteBranch(S, frame, instr) ==
    LET size     == Len(Instructions(frame))
        labelMap == methods[frame.method].labelMap
        cond     == BranchCondition(instr, frame.stack)
        to       == ResolveTarget(instr, labelMap, size)
        isLabel  == ~instr.hasOperandInt /\ IsLabel(labelMap, instr.operandString)
        record   == [NoBranch EXCEPT
                        !.method = frame.method, !.ip = frame.ip, !.op = instr.opCode,
                        !.taken = cond.taken, !.size = size,
                        !.hasOperandInt = instr.hasOperandInt,
                        !.operandInt = instr.operandInt, !.isLabel = isLabel,
                        !.labelIndex = IF isLabel
                                       THEN LabelIndex(labelMap, instr.operandString)
                                       ELSE 0]
    IN  IF ~cond.ok
        THEN Throw([S EXCEPT !.lastBranch = [record EXCEPT !.outcome = "error"]],
                   cond.error)
        ELSE IF ~cond.taken
        THEN [WithTop(S, Advance(frame, cond.rest)) EXCEPT
                !.lastBranch = [record EXCEPT !.outcome = "next", !.next = frame.ip + 1]]
        ELSE IF ~to.ok
        THEN Throw([S EXCEPT !.lastBranch =
                        [record EXCEPT !.outcome = "error", !.way = to.way,
                                       !.target = to.target]],
                   "BadBranchTarget")
        ELSE [WithTop(S, [frame EXCEPT !.stack = cond.rest, !.ip = to.target,
                                       !.jumped = TRUE, !.jumpWay = to.way,
                                       !.jumpIndex = to.target]) EXCEPT
                !.lastBranch = [record EXCEPT !.outcome = "jump", !.way = to.way,
                                              !.target = to.target, !.next = to.target]]

\* no operation under evaluation
NoOperands == <<Null, Null>>

NotEvaluated == [op |-> "None", outcome |-> PushNothing, taken |-> FALSE]

(***************************************************************************)
(* Locals, floating-point literals and fields.                             *)
(***************************************************************************)
\* the index _localIndices holds for name (the last local so named), 0 if none
LocalIndex(m, name) ==
    With({i \in DOMAIN methods[m].locals : methods[m].locals[i] = name}, LAMBDA hits :
        IF hits = {} THEN 0 ELSE SetMax(hits))

DataOpCodes == {"LdLoc", "StLoc", "LdR4", "LdR8", "LdFld", "StFld"}

\* the name LdFld and StFld look up
FieldName(instr) ==
    IF instr.hasFieldTarget THEN instr.fieldTarget.name ELSE instr.operandString

\* no fallback to the frame's this
FieldInstanceMutant(frame, stack) ==
    IF stack # <<>> /\ IsObject(Last(stack)) THEN Last(stack).i ELSE NullObject
\* the instance LdFld and StFld work on, given the stack left once StFld has taken
\* its value: a popped object reference, else the frame's this
FieldInstance(frame, stack) ==
    IF stack # <<>> /\ IsObject(Last(stack)) THEN Last(stack).i ELSE frame.this

\* the stack once the instance has been popped; an empty stack stays empty
BelowInstance(stack) == IF stack = <<>> THEN stack ELSE Front(stack)

ExecuteLdFld(S, frame, instr) ==
    With(FieldInstance(frame, frame.stack), LAMBDA instance :
        IF FieldName(instr) = <<>> THEN Raised(S, "MissingOperand")
        ELSE IF instance = NullObject THEN Raised(S, "NoInstance")
        ELSE IF ~HasField(S.heap[instance], FieldName(instr))
        THEN Raised(S, "FieldNotFound")
        ELSE Done(WithTop(S, Advance(frame,
                Append(BelowInstance(frame.stack),
                       GetField(S.heap[instance], FieldName(instr)))))))

ExecuteStFld(S, frame, instr) ==
    IF FieldName(instr) = <<>> THEN Raised(S, "MissingOperand")
    ELSE IF frame.stack = <<>> THEN Raised(S, "StackUnderflow")
    ELSE With(FieldInstance(frame, Front(frame.stack)), LAMBDA instance :
            IF instance = NullObject THEN Raised(S, "NoInstance")
            ELSE Done([WithTop(S, Advance(frame, BelowInstance(Front(frame.stack))))
                        EXCEPT !.heap[instance] =
                            SetField(@, FieldName(instr), Last(frame.stack))]))

\* Execute for LdLoc, StLoc, LdR4, LdR8, LdFld and StFld
ExecuteData(S, frame, instr) ==
    With(LocalIndex(frame.method, instr.identifier), LAMBDA idx :
        CASE instr.opCode = "LdLoc" ->
                IF idx = 0 THEN Raised(S, "LocalNotFound")
                ELSE IF idx > Len(frame.locals) THEN Raised(S, "OutOfRange")
                ELSE Done(WithTop(S, Pushed(frame, frame.locals[idx])))
          [] instr.opCode = "StLoc" ->
                IF frame.stack = <<>> THEN Raised(S, "StackUnderflow")
                ELSE IF idx = 0 THEN Raised(S, "LocalNotFound")
                ELSE Done(WithTop(S,
                        [Advance(frame, Front(frame.stack)) EXCEPT !.locals =
                            [i \in 1..(IF idx > Len(@) THEN idx ELSE Len(@)) |->
                                IF i = idx THEN Last(frame.stack)
                                ELSE IF i <= Len(@) THEN @[i] ELSE Null]]))
          [] instr.opCode = "LdR4" ->
                Done(WithTop(S, Pushed(frame, Float32V(instr.operandDouble))))
          [] instr.opCode = "LdR8" ->
                Done(WithTop(S, Pushed(frame, Float64V(instr.operandDouble))))
          [] instr.opCode = "LdFld" -> ExecuteLdFld(S, frame, instr)
          [] OTHER -> ExecuteStFld(S, frame, instr))

(***************************************************************************)
(* If, While, Break and Continue.  Execute runs the instructions of a      *)
(* then/else block, a condition and a loop body by calling itself; here    *)
(* each such activation is an entry of the frame's block stack.            *)
(***************************************************************************)
NoLoop == [condition |-> NoCondition, body |-> <<>>, setup |-> <<>>]

Block(kind, list, loop) == [kind |-> kind, list |-> list, ip |-> 0, loop |-> loop]

Entered(frame, stack, block) ==
    [frame EXCEPT !.stack = stack, !.blocks = Append(@, block)]

\* the frame once its innermost block has ended: the instruction that opened the
\* block is complete
Left(frame) == Advance([frame EXCEPT !.blocks = Front(@)], frame.stack)

\* the If case of Execute
ExecuteIf(S, frame, instr) ==
    IF ~instr.hasIfData THEN Raised(S, "MissingOperand")
    ELSE IF frame.stack = <<>> THEN Raised(S, "StackUnderflow")
    ELSE IF ValueToBool(Last(frame.stack))
    THEN Done(WithTop(S, Entered(frame, Front(frame.stack),
                                 Block("if", instr.thenBlock, NoLoop))))
    ELSE IF instr.elseBlock # <<>>
    THEN Done(WithTop(S, Entered(frame, Front(frame.stack),
                                 Block("if", instr.elseBlock, NoLoop))))
    ELSE Done(WithTop(S, Advance(frame, Front(frame.stack))))

SetupOpCodes ==
    {"LdLoc", "LdCon", "LdI4", "LdI8", "LdR4", "LdR8", "LdTrue", "LdFalse", "LdNull"}

\* a dispatch loop that replays nothing
SetupInstructionsMutant(instructions, ip) == <<>>
\* the contiguous load instructions before position ip (0-based) of the list
SetupInstructions(instructions, ip) ==
    With({j \in 1..ip : instructions[j].opCode \notin SetupOpCodes}, LAMBDA others :
        SubSeq(instructions, (IF others = {} THEN 0 ELSE SetMax(others)) + 1, ip))

\* the instructions a condition runs before it pops its operands: the replayed
\* loads for a Binary condition met by the dispatch loop, and for a condition
\* EvaluateCondition handles its setupInstructions, then its expression
ConditionInstructions(frame, instr) ==
    IF ~InBlock(frame) /\ instr.condition.kind = "Binary"
    THEN SetupInstructions(Instructions(frame), frame.ip)
    ELSE IF instr.condition.kind = "Expression"
    THEN instr.condition.setupInstructions \o instr.condition.expressionInstructions
    ELSE instr.condition.setupInstructions

\* While, as the dispatch loop and as Execute enter it: the first evaluation of
\* the condition begins
ExecuteWhile(S, frame, instr) ==
    IF ~instr.hasWhileData THEN Raised(S, "MissingOperand")
    ELSE With([condition |-> instr.condition, body |-> instr.body,
               setup |-> ConditionInstructions(frame, instr)], LAMBDA loop :
            Done(WithTop(S, Entered(frame, frame.stack,
                                    Block("cond", loop.setup, loop)))))

\* the operands a condition pops and what it evaluates to
ConditionResult(condition, stack) ==
    CASE condition.kind \in {"Stack", "Expression"} ->
            IF stack = <<>> THEN Fail("StackUnderflow")
            ELSE Push(BoolV(ValueToBool(Last(stack))))
      [] condition.kind = "Binary" ->
            IF condition.comparisonOp = "Nop" THEN Fail("MissingOperand")
            ELSE IF Len(stack) < 2 THEN Fail("StackUnderflow")
            ELSE IF condition.comparisonOp \notin ComparisonOpCodes
            THEN Fail("Unsupported")
            ELSE Comparison(condition.comparisonOp, stack[Len(stack) - 1], Last(stack))
      [] OTHER -> Fail("Unsupported")

BelowCondition(condition, stack) ==
    SubSeq(stack, 1, Len(stack) - (IF condition.kind = "Binary" THEN 2 ELSE 1))

\* a block has run its last instruction: the then/else block returns to the
\* instruction after the If; a loop body goes back to the condition; a condition
\* pops its operands and starts the body or leaves the loop
ExecuteBlockEnd(S, frame) ==
    With(Last(frame.blocks), LAMBDA block :
    With(ConditionResult(block.loop.condition, frame.stack), LAMBDA result :
    With([frame EXCEPT !.blocks = Front(@)], LAMBDA outer :
        CASE block.kind = "if" -> Done(WithTop(S, Left(frame)))
          [] block.kind = "body" ->
                Done(WithTop(S, Entered(outer, frame.stack,
                                        Block("cond", block.loop.setup, block.loop))))
          [] OTHER ->
                IF result.kind = "error" THEN Raised(S, result.error)
                ELSE IF ValueToBool(result.v)
                THEN Done(WithTop(S,
                        Entered(outer, BelowCondition(block.loop.condition, frame.stack),
                                Block("body", block.loop.body, block.loop))))
                ELSE Done(WithTop(S,
                        Advance(outer,
                                BelowCondition(block.loop.condition, frame.stack)))))))

\* the innermost loop body the frame is inside, 0 if none
InnermostBody(frame) ==
    With({k \in DOMAIN frame.blocks : frame.blocks[k].kind = "body"}, LAMBDA bodies :
        IF bodies = {} THEN 0 ELSE SetMax(bodies))

\* catch clauses that end the loop on either signal
CaughtMutant(frame, k, signal) ==
    Advance([frame EXCEPT !.blocks = SubSeq(@, 1, k - 1)], frame.stack)
\* the catch clauses of a While on the frame whose body (block k) the signal left
Caught(frame, k, signal) ==
    With([frame EXCEPT !.blocks = SubSeq(@, 1, k - 1)], LAMBDA outer :
        IF signal = "Break" THEN Advance(outer, frame.stack)
        ELSE Entered(outer, frame.stack,
                     Block("cond", frame.blocks[k].loop.setup, frame.blocks[k].loop)))

\* BreakSignal and ContinueSignal are exceptions: each travels outwards through
\* the activations, those of calling frames included, to the first While body
RECURSIVE Unwind(_, _, _)
Unwind(S, frames, signal) ==
    IF frames = <<>> THEN Throw(S, signal)
    ELSE With(InnermostBody(Last(frames)), LAMBDA k :
            IF k = 0 THEN Unwind(S, Front(frames), signal)
            ELSE [S EXCEPT !.callStack =
                    Append(Front(frames), Caught(Last(frames), k, signal))])

(***************************************************************************)
(* The Call/CallVirt case of Execute.                                      *)
(***************************************************************************)
\* the values PopStack hands back over n pops, first popped first
Popped(stack, n) == [i \in 1..n |-> stack[Len(stack) - i + 1]]

\* the arguments left in the order they were popped
ReverseMutant(seq) == seq
\* std::reverse
Reverse(seq) == [i \in 1..Len(seq) |-> seq[Len(seq) - i + 1]]

IsVoidReturn(target) == target.returnType \in {<<>>, s_void, s_System_Void}

IsConsoleWriteLine(target) ==
    target.declaringType = s_System_Console /\ target.name = s_WriteLine

\* only the last argument is written
WriteLineTextMutant(callArgs) ==
    IF callArgs = <<>> THEN <<>> ELSE ValueToString(Last(callArgs))
\* what the WriteOutput calls of the Console.WriteLine case append to the output
RECURSIVE WriteLineText(_)
WriteLineText(callArgs) ==
    IF callArgs = <<>> THEN <<>>
    ELSE LET head == WriteLineText(Front(callArgs))
             arg  == Last(callArgs)
             text == IF IsNull(arg) THEN <<>> ELSE ValueToString(arg)
         IN  IF Len(callArgs) > 1 THEN head \o <<" ">> \o text ELSE text

NoDispatch ==
    [op |-> "None", target |-> NoCallTarget, receiverClass |-> NoClass,
     found |-> ResolveFailed("none"), args |-> <<>>, pushed |-> <<>>, console |-> FALSE]

ExecuteCall(S, frame, instr) ==
    LET target   == instr.callTarget
        stack    == frame.stack
        n        == Len(target.parameterTypes)
        callArgs == Reverse(Popped(stack, n))
        rest     == SubSeq(stack, 1, Len(stack) - n)
        virtual  == instr.opCode = "CallVirt"
        call     == [op |-> instr.opCode, n |-> n, isVoidReturn |-> IsVoidReturn(target),
                     depthBefore |-> Len(stack)]
        record   == [NoDispatch EXCEPT !.op = instr.opCode, !.target = target,
                        !.args = callArgs,
                        !.pushed = SubSeq(stack, Len(stack) - n + 1, Len(stack))]
        receiver == Last(rest)
        rcvClass == S.heap[receiver.i].cls
        declared == GetClass(target.declaringType)
        found    == IF virtual THEN ResolveOverloadOrThrow(rcvClass, target, FALSE)
                    ELSE ResolveOverloadOrThrow(declared.cls, target, TRUE)
        S1       == [S EXCEPT !.lastDispatch =
                        [record EXCEPT !.found = found,
                            !.receiverClass = IF virtual THEN rcvClass ELSE NoClass]]
        callers  == Append(Callers,
                        [frame EXCEPT !.stack = IF virtual THEN Front(rest) ELSE rest])
    IN  IF ~instr.hasCallTarget THEN Throw(S, "MissingOperand")
        ELSE IF Len(stack) < n THEN Throw(S, "StackUnderflow")
        ELSE IF IsConsoleWriteLine(target)
        THEN [WithTop(S, Advance(frame, rest)) EXCEPT
                !.output = @ \o WriteLineText(callArgs) \o <<"\n">>,
                !.lastDispatch = [record EXCEPT !.console = TRUE],
                !.lastCall = [done |-> TRUE, op |-> instr.opCode, n |-> n,
                              isVoidReturn |-> IsVoidReturn(target), console |-> TRUE,
                              before |-> Len(stack), after |-> Len(rest)]]
        ELSE IF virtual /\ rest = <<>> THEN Throw(S, "StackUnderflow")
        ELSE IF virtual /\ ~IsObject(receiver) THEN Throw(S, "TypeMismatch")
        ELSE IF virtual /\ receiver.i = NullObject THEN Throw(S, "NullObject")
        ELSE IF ~virtual /\ ~declared.ok THEN Throw(S, "ClassNotFound")
        ELSE IF ~found.ok THEN Throw(S1, found.error)
        ELSE Invoke(S1, callers, found.method,
                    IF virtual THEN receiver.i ELSE NullObject, callArgs,
                    IF virtual THEN "instance_target" ELSE "static_target", call)

\* Ret, or the end of the list: the top of the stack or null goes back through the
\* invoke function, which pops the context and applies the void check
NoReturn ==
    [method |-> NoMethod, raw |-> Null, value |-> Null, path |-> "none",
     pastEnd |-> FALSE, residual |-> 0]

ExecuteReturn(S, frame) ==
    LET raw   == IF frame.stack = <<>> THEN Null ELSE Last(frame.stack)
        value == VoidAdjusted(frame.method, raw)
        S1    == [PopContext(S) EXCEPT !.lastReturn =
                    [method |-> frame.method, raw |-> raw, value |-> value,
                     path |-> frame.path, pastEnd |-> frame.ip >= Len(Instructions(frame)),
                     residual |-> Len(frame.stack)]]
    IN  Deliver(S1, Callers, value, frame.call)

(***************************************************************************)
(* Actions.  The dispatch loop runs whenever an activation exists.         *)
(***************************************************************************)
Running == callStack # <<>>

NoExec ==
    [method |-> NoMethod, op |-> "None", operand |-> "none", nested |-> FALSE,
     before |-> 0, after |-> 0, completed |-> FALSE]

\* the state T an instruction of the frame led to, with the record of it: the
\* opcode ("None" at the end of a list or block), the variant of the value on top of the stack before it, the frame's
\* stack depth before and after, and whether it completed without an error
Executed(frame, instr, T) ==
    [T EXCEPT !.lastExec =
        [method |-> frame.method,
         op |-> instr.opCode,
         operand |-> IF frame.stack = <<>> THEN "none" ELSE Last(frame.stack).t,
         nested |-> InBlock(frame),
         before |-> Len(frame.stack),
         after |-> IF Len(T.callStack) >= Len(callStack)
                   THEN Len(T.callStack[Len(callStack)].stack) ELSE 0,
         completed |-> T.hostResult.kind # "error"]]

StepSimple ==
    /\ Running
    /\ Fetch(Top).opCode \in SimpleOpCodes
    /\ Becomes(Executed(Top, Fetch(Top),
                        Settle(ExecuteSimple(Fetched(Cur, Top), Top, Fetch(Top)))))

StepBranch ==
    /\ Running
    /\ ~InBlock(Top)
    /\ Fetch(Top).opCode \in BranchOpCodes
    /\ Becomes(Executed(Top, Fetch(Top),
                        ExecuteBranch(Fetched(Cur, Top), Top, Fetch(Top))))

StepCall ==
    /\ Running
    /\ Fetch(Top).opCode \in {"Call", "CallVirt"}
    /\ Becomes(Executed(Top, Fetch(Top),
                        ExecuteCall(Fetched(Cur, Top), Top, Fetch(Top))))

\* Ret in the dispatch loop, or the end of the instruction list
StepReturn ==
    /\ Running
    /\ ~InBlock(Top)
    /\ Fetch(Top).opCode \in {"Ret", "None"}
    /\ Becomes(Executed(Top, Fetch(Top), ExecuteReturn(Fetched(Cur, Top), Top)))

StepArithmetic(whenUndefined) ==
    /\ Running
    /\ Fetch(Top).opCode \in ArithmeticOpCodes \cup ComparisonOpCodes
    /\ Becomes(Executed(Top, Fetch(Top),
            Settle(ExecuteArithmetic(Fetched(Cur, Top), Top, Fetch(Top),
                                     whenUndefined))))

StepData ==
    /\ Running
    /\ Fetch(Top).opCode \in DataOpCodes
    /\ Becomes(Executed(Top, Fetch(Top),
                        Settle(ExecuteData(Fetched(Cur, Top), Top, Fetch(Top)))))

StepIf ==
    /\ Running
    /\ Fetch(Top).opCode = "If"
    /\ Becomes(Executed(Top, Fetch(Top),
                        Settle(ExecuteIf(Fetched(Cur, Top), Top, Fetch(Top)))))

StepWhile ==
    /\ Running
    /\ Fetch(Top).opCode = "While"
    /\ Becomes(Executed(Top, Fetch(Top),
                        Settle(ExecuteWhile(Fetched(Cur, Top), Top, Fetch(Top)))))

\* the end of a then/else block, a loop body or a condition's instructions
StepBlockEnd ==
    /\ Running
    /\ InBlock(Top)
    /\ Fetch(Top).opCode = "None"
    /\ Becomes(Executed(Top, Fetch(Top), Settle(ExecuteBlockEnd(Cur, Top))))

\* the Break and Continue cases of Execute
StepLoopControl ==
    /\ Running
    /\ Fetch(Top).opCode \in {"Break", "Continue"}
    /\ Becomes(Executed(Top, Fetch(Top),
                        Unwind(Fetched(Cur, Top), callStack, Fetch(Top).opCode)))

\* the Ret case of Execute: inside a block a Ret does nothing
StepNestedRet ==
    /\ Running
    /\ InBlock(Top)
    /\ Fetch(Top).opCode = "Ret"
    /\ Becomes(Executed(Top, Fetch(Top),
                        WithTop(Fetched(Cur, Top), Advance(Top, Top.stack))))

UnsupportedOpCodes ==
    {"Throw", "CastClass", "IsInst", "NewArr", "LdElem", "StElem", "LdLen"}

\* the cases of Execute that always throw: Throw, the opcodes without a case, and
\* a branch met inside a block
StepUnsupported ==
    /\ Running
    /\ \/ Fetch(Top).opCode \in UnsupportedOpCodes
       \/ InBlock(Top) /\ Fetch(Top).opCode \in BranchOpCodes
    /\ Becomes(Executed(Top, Fetch(Top), Throw(Fetched(Cur, Top), "Unsupported")))

(***************************************************************************)
(* The plugin loader: VirtualMachine::LoadPlugin and UnloadAllPlugins.     *)
(***************************************************************************)
OBJECTIR_PLUGIN_ABI_MAJOR == 1

OBJECTIR_PLUGIN_ABI_MINOR == 0

\* (major << 16) | (minor & 0xFFFF), for majors below 2^15
OBJECTIR_PLUGIN_ABI_PACKED(major, minor) == major * 65536 + (minor % 65536)

OBJECTIR_PLUGIN_ABI_VERSION_PACKED ==
    OBJECTIR_PLUGIN_ABI_PACKED(OBJECTIR_PLUGIN_ABI_MAJOR, OBJECTIR_PLUGIN_ABI_MINOR)

\* a plugin library as the dynamic loader and the handshake see it: whether the
\* file can be opened, what ObjectIR_PluginGetInfo does and the range it
\* writes, what ObjectIR_PluginInit does, and what ObjectIR_PluginShutdown does;
\* "absent" is a symbol the library does not export
Library(exists, info, abiMinPacked, abiMaxPacked, init, shutdown) ==
    [exists |-> exists, info |-> info, abiMinPacked |-> abiMinPacked,
     abiMaxPacked |-> abiMaxPacked, init |-> init, shutdown |-> shutdown]

PluginLibraries ==
    << Library(FALSE, "absent", 0, 0, "absent", "absent"),
       Library(TRUE, "returns 1", OBJECTIR_PLUGIN_ABI_PACKED(1, 0),
               OBJECTIR_PLUGIN_ABI_PACKED(1, 65535), "returns true", "returns"),
       Library(TRUE, "returns 1", OBJECTIR_PLUGIN_ABI_PACKED(2, 0),
               OBJECTIR_PLUGIN_ABI_PACKED(2, 0), "returns true", "returns"),
       Library(TRUE, "returns 1", 0, OBJECTIR_PLUGIN_ABI_PACKED(0, 5),
               "returns true", "returns"),
       Library(TRUE, "returns 1", 0, 0, "returns true", "throws"),
       Library(TRUE, "returns 1", OBJECTIR_PLUGIN_ABI_PACKED(1, 0), 0,
               "returns false", "returns"),
       Library(TRUE, "returns 1", 0, OBJECTIR_PLUGIN_ABI_PACKED(1, 0),
               "absent", "returns"),
       Library(TRUE, "returns 0", OBJECTIR_PLUGIN_ABI_PACKED(1, 0),
               OBJECTIR_PLUGIN_ABI_PACKED(1, 0), "returns true", "returns"),
       Library(TRUE, "throws", 0, 0, "returns true", "returns"),
       Library(TRUE, "absent", 0, 0, "returns true", "absent"),
       Library(TRUE, "absent", 0, 0, "absent", "returns"),
       Library(TRUE, "absent", 0, 0, "returns false", "returns"),
       Library(TRUE, "absent", 0, 0, "throws std::exception", "returns"),
       Library(TRUE, "absent", 0, 0, "throws", "returns") >>

\* the empty path, and one path per library
EmptyPath == 0

PluginPaths == {EmptyPath} \cup DOMAIN PluginLibraries

\* the loader's part of the VM and of the process
PluginState ==
    [plugins |-> plugins, openCount |-> openCount, pluginLog |-> pluginLog,
     hostResult |-> hostResult]

Logged(P, event, lib) ==
    [P EXCEPT !.pluginLog = Append(@, [event |-> event, lib |-> lib])]

\* dlopen and dlclose
Opened(P, lib) == Logged([P EXCEPT !.openCount[lib] = @ + 1], "dlopen", lib)

Closed(P, lib) == Logged([P EXCEPT !.openCount[lib] = @ - 1], "dlclose", lib)

\* a throw that leaves the library open
RejectedMutant(P, lib, error) == [P EXCEPT !.hostResult = Failure(error)]
\* LoadPlugin closes the library and throws
Rejected(P, lib, error) == [Closed(P, lib) EXCEPT !.hostResult = Failure(error)]

\* the LoadedPlugin entry pushed to _plugins
Recorded(P, lib) ==
    [P EXCEPT !.plugins = Append(@, [handle |-> lib,
                                     shutdown |-> PluginLibraries[lib].shutdown,
                                     path |-> lib]),
              !.hostResult = Returned(BoolV(TRUE))]

\* a handshake that checks the lower bound only
AbiInRangeMutant(runtimeAbi, info) ==
    ~(info.abiMinPacked # 0 /\ runtimeAbi < info.abiMinPacked)
\* the two range checks of the handshake; a zero bound is not checked
AbiInRange(runtimeAbi, info) ==
    /\ ~(info.abiMinPacked # 0 /\ runtimeAbi < info.abiMinPacked)
    /\ ~(info.abiMaxPacked # 0 /\ runtimeAbi > info.abiMaxPacked)

\* LoadPlugin from the resolution of ObjectIR_PluginInit on
RunInit(P, lib) ==
    IF PluginLibraries[lib].init = "absent"
    THEN Rejected(P, lib, "PluginMissingEntry")
    ELSE IF PluginLibraries[lib].init # "returns true"
    THEN Rejected(Logged(P, "Init", lib), lib, "PluginInitFailed")
    ELSE Recorded(Logged(P, "Init", lib), lib)

\* the optional ABI handshake, then the rest of LoadPlugin
Handshake(P, lib) ==
    IF PluginLibraries[lib].info = "absent" THEN RunInit(P, lib)
    ELSE IF PluginLibraries[lib].info # "returns 1"
    THEN Rejected(Logged(P, "GetInfo", lib), lib, "PluginInfoFailed")
    ELSE IF ~AbiInRange(OBJECTIR_PLUGIN_ABI_VERSION_PACKED, PluginLibraries[lib])
    THEN Rejected(Logged(P, "GetInfo", lib), lib, "AbiIncompatible")
    ELSE RunInit(Logged(P, "GetInfo", lib), lib)

\* VirtualMachine::LoadPlugin
LoadPluginResult(P, path) ==
    IF path = EmptyPath \/ ~PluginLibraries[path].exists
    THEN [P EXCEPT !.hostResult = Failure("PluginLoadFailed")]
    ELSE Handshake(Opened(P, path), path)

\* a loop that shuts the plugins down in load order
RECURSIVE ShutDownMutant(_, _)
ShutDownMutant(P, n) ==
    IF n = 0 THEN P
    ELSE Closed(IF P.plugins[n].shutdown # "absent"
                THEN Logged(ShutDownMutant(P, n - 1), "Shutdown", P.plugins[n].handle)
                ELSE ShutDownMutant(P, n - 1),
                P.plugins[n].handle)
\* the loop of UnloadAllPlugins over the first n entries, last entry first; what
\* a shutdown hook throws is dropped
RECURSIVE ShutDown(_, _)
ShutDown(P, n) ==
    IF n = 0 THEN P
    ELSE ShutDown(Closed(IF P.plugins[n].shutdown # "absent"
                         THEN Logged(P, "Shutdown", P.plugins[n].handle) ELSE P,
                         P.plugins[n].handle),
                  n - 1)

\* VirtualMachine::UnloadAllPlugins
UnloadAllPluginsResult(P) ==
    [ShutDown(P, Len(P.plugins)) EXCEPT !.plugins = <<>>, !.hostResult = Returned(Null)]

(***************************************************************************)
(* The host: the embedding program and the plugins it loads call into the  *)
(* VM between runs of the interpreter.                                     *)
(***************************************************************************)
MaxHostCalls == 2

HostIdle == ~Running /\ hostCalls < MaxHostCalls

\* a host call starts from the current state with the previous result forgotten
HostState == [Cur EXCEPT !.hostCalls = @ + 1, !.hostResult = NoResult]

ByName(className, methodName, body) ==
    [className |-> className, methodName |-> methodName, bySignature |-> FALSE,
     parameterTypes |-> <<>>, body |-> body, given |-> TRUE, isArray |-> TRUE]

BySignature(className, methodName, parameterTypes, body) ==
    [className |-> className, methodName |-> methodName, bySignature |-> TRUE,
     parameterTypes |-> parameterTypes, body |-> body, given |-> TRUE,
     isArray |-> TRUE]

\* the same call with a null pointer among its arguments
NullArguments(req) == [req EXCEPT !.given = FALSE]

\* the same call with JSON text that parses to a value that is not an array
NotArray(req) == [req EXCEPT !.isArray = FALSE, !.body = <<>>]

MainBodies ==
    {JPatched, <<>>, JCalls, JVirtual, JBranches, JBranchStale, JBranchBadIndex,
     JBranchBadString, JBranchNoLabel, JBranchNoOperand, JUndecodable}

ReplaceByNameRequests ==
    {ByName(s_Program, s_Main, body) : body \in MainBodies}
    \cup {ByName(s_Program, s_Patch, JPatched), ByName(s_Base, s_V, JResidual),
          ByName(s_Program, s_F, JPatched), ByName(s_Nope, s_Main, JPatched),
          ByName(s_Program, s_Nope, JPatched),
          NotArray(ByName(s_Program, s_Main, <<>>)),
          NullArguments(ByName(s_Program, s_Main, JPatched))}

ReplaceBySignatureRequests ==
    {BySignature(s_Program, s_Main, <<>>, JPatched),
     BySignature(s_Program, s_F, <<s_int>>, JReturn(3)),
     BySignature(s_Program, s_H, <<s_Foo>>, JReturn(3)),
     BySignature(s_Program, s_K, <<s_int>>, JReturn(3)),
     BySignature(s_Program, s_F, <<s_int>>, JUndecodable),
     NullArguments(BySignature(s_Program, s_Main, <<>>, JPatched))}

PluginReplaceMethodInstructionsJson(req) ==
    /\ HostIdle
    /\ req.bySignature = FALSE
    /\ Becomes(With(ReplaceMethodInstructions(HostState, req), LAMBDA done :
                    [done.state EXCEPT !.hostResult = Status(done.status)]))

PluginReplaceMethodInstructionsJsonBySignature(req) ==
    /\ HostIdle
    /\ req.bySignature = TRUE
    /\ Becomes(With(ReplaceMethodInstructions(HostState, req), LAMBDA done :
                    [done.state EXCEPT !.hostResult = Status(done.status)]))

PluginGetAllClassNamesJson(outJson) ==
    /\ HostIdle
    /\ Becomes(With(GetAllClassNamesJson(HostState, outJson), LAMBDA done :
                    [done.state EXCEPT !.hostResult = Status(done.status)]))

PluginGetClassMetadataJson(className, includeInstructions, outJson) ==
    /\ HostIdle
    /\ Becomes(With(GetClassMetadataJson(HostState, className, includeInstructions,
                                         outJson), LAMBDA done :
                    [done.state EXCEPT !.hostResult.kind = "status",
                                       !.hostResult.value = Int32V(done.status)]))

\* a host or plugin installing a native implementation on an existing method
HostSetNativeImpl(m, impl) ==
    /\ HostIdle
    /\ Becomes([HostState EXCEPT !.methods[m] = SetNativeImpl(@, impl)])

\* VirtualMachine::CreateObject(className)
HostCreateObject(className) ==
    /\ HostIdle
    /\ Becomes(With(GetClass(className), LAMBDA cls :
                    IF ~cls.ok THEN Throw(HostState, "ClassNotFound")
                    ELSE [HostState EXCEPT !.heap = Append(@, CreateInstance(cls.cls)),
                            !.hostResult = Returned(ObjV(Len(heap) + 1))]))

Target(name, parameterTypes) ==
    [NoCallTarget EXCEPT !.name = name, !.parameterTypes = parameterTypes]

\* VirtualMachine::InvokeStaticMethod(classType, methodName, args); the host obtains
\* classType from GetClass
InvokeStaticMethodByName(className, methodName, args) ==
    /\ HostIdle
    /\ Becomes(With(GetClass(className), LAMBDA cls :
            IF ~cls.ok THEN Throw(HostState, "ClassNotFound")
            ELSE With(LookupMethod(cls.cls, methodName), LAMBDA m :
                    IF m = NoMethod THEN Throw(HostState, "MethodNotFound")
                    ELSE Invoke(HostState, <<>>, m, NullObject, args, "static_name",
                                HostCall))))

\* VirtualMachine::InvokeStaticMethod(classType, target, args)
InvokeStaticMethodByTarget(className, target, args) ==
    /\ HostIdle
    /\ Becomes(With(GetClass(className), LAMBDA cls :
            IF ~cls.ok THEN Throw(HostState, "ClassNotFound")
            ELSE With(ResolveOverloadOrThrow(cls.cls, target, TRUE), LAMBDA found :
                    IF ~found.ok THEN Throw(HostState, found.error)
                    ELSE Invoke(HostState, <<>>, found.method, NullObject, args,
                                "static_target", HostCall))))

\* VirtualMachine::InvokeMethod(object, methodName, args)
InvokeMethodByName(obj, methodName, args) ==
    /\ HostIdle
    /\ obj \in DOMAIN heap
    /\ Becomes(With(LookupMethod(heap[obj].cls, methodName), LAMBDA m :
            IF m = NoMethod THEN Throw(HostState, "MethodNotFound")
            ELSE Invoke(HostState, <<>>, m, obj, args, "instance_name", HostCall)))

\* VirtualMachine::InvokeMethod(object, target, args)
InvokeMethodByTarget(obj, target, args) ==
    /\ HostIdle
    /\ obj \in DOMAIN heap
    /\ Becomes(With(ResolveOverloadOrThrow(heap[obj].cls, target, FALSE), LAMBDA found :
            IF ~found.ok THEN Throw(HostState, found.error)
            ELSE Invoke(HostState, <<>>, found.method, obj, args, "instance_target",
                        HostCall)))

\* what the host asks for: <<class or method name, ..., arguments>>
StaticByNameRequests ==
    { <<s_Program, s_Main, <<>>>>, <<s_Program, s_Patch, <<>>>>,
      <<s_Program, s_K, <<Int32V(1), StrV(s_x)>>>>, <<s_Base, s_Inst, <<>>>>,
      <<s_Base, s_V, <<>>>>, <<s_Base, s_G, <<Int32V(5)>>>>,
      <<s_Nope, s_Main, <<>>>>, <<s_Program, s_Own, <<>>>>,
      <<s_Program, s_Arith, <<Int32V(1)>>>>, <<s_Program, s_NegString, <<>>>>,
      <<s_Program, s_Count, <<>>>>,
      <<s_Program, s_Loop, <<>>>>, <<s_Program, s_Fields, <<>>>>,
      <<s_Program, s_LoadStatic, <<>>>>, <<s_Program, s_StoreStatic, <<>>>>,
      <<s_Program, s_Lines, <<>>>>,
      <<s_Program, s_Quotient, <<Int32V(7), Int32V(2)>>>>,
      <<s_Program, s_Quotient, <<Int32V(10), Int32V(0)>>>>,
      <<s_Program, s_Quotient, <<Int32V(10), Int64V(0)>>>>,
      <<s_Program, s_Quotient, <<StrV(s_x), Int32V(0)>>>>,
      <<s_Program, s_Raise, <<>>>> }

StaticByTargetRequests ==
    { <<s_Program, Target(s_Main, <<>>), <<>>>>,
      <<s_Program, Target(s_F, <<s_System_String>>), <<StrV(s_x)>>>>,
      <<s_Program, Target(s_F, <<s_int>>), <<Int32V(5)>>>>,
      <<s_Program, Target(s_F, <<>>), <<Int32V(5)>>>>,
      <<s_Program, Target(s_H, <<s_Foo>>), <<Null>>>>,
      <<s_Base, Target(s_Inst, <<>>), <<>>>>,
      <<s_Base, Target(s_G, <<s_int32>>), <<Int32V(5)>>>>,
      <<s_Base, Target(s_V, <<>>), <<>>>> }

InstanceByNameRequests ==
    { <<s_Inst, <<>>>>, <<s_G, <<Int32V(5)>>>>, <<s_Own, <<Int32V(1), Int32V(2)>>>> }

InstanceByTargetRequests ==
    { <<Target(s_Inst, <<>>), <<>>>>, <<Target(s_G, <<s_int32>>), <<Int32V(5)>>>>,
      <<Target(s_Own, <<s_int, s_int>>), <<Int32V(1), Int32V(2)>>>> }

\* <<className, includeInstructions, outJson>>
MetadataRequests ==
    { <<s_Program, TRUE, "given">>, <<s_Base, TRUE, "given">>,
      <<s_Foo, FALSE, "given">>, <<s_Nope, TRUE, "given">>,
      <<s_Program, TRUE, "null">> }

NativeRequests == { <<7, "Const">>, <<9, "Const">> }

NoFetch ==
    [method |-> NoMethod, ip |-> 0, cur |-> NoInstruction, old |-> NoInstruction,
     swapped |-> FALSE, jumped |-> FALSE, jumpWay |-> "none", jumpIndex |-> 0]

NoInvoke ==
    [method |-> NoMethod, form |-> "none", path |-> "none", this |-> NullObject,
     body |-> <<>>, replaced |-> FALSE, replacement |-> <<>>]

NoResolveInput ==
    [cls |-> NoClass, name |-> <<>>, parameterTypes |-> <<>>, requireStatic |-> FALSE]

Pending == ResolveFailed("pending")

\* main has not returned
NotExited == [exited |-> FALSE, code |-> 0, stderr |-> "none"]

\* the VM after the module is loaded
Loaded ==
    /\ classes = ModuleClasses
    /\ registry = RegisterAll(ModuleClasses, Len(ModuleClasses))
    /\ methods = ModuleMethods
    /\ heap = <<>>
    /\ callStack = <<>>
    /\ contextStack = <<>>
    /\ currentContext = NoMethod
    /\ output = <<>>
    /\ hostResult = NoResult
    /\ lastError = "none"
    /\ hostCalls = 0
    /\ installed = [m \in DOMAIN methods |-> NotInstalled]
    /\ fetched = NoFetch
    /\ lastInvoke = NoInvoke
    /\ lastReturn = NoReturn
    /\ lastDispatch = NoDispatch
    /\ lastCall = NoCall
    /\ lastBranch = NoBranch
    /\ lastExec = NoExec
    /\ plugins = <<>>
    /\ openCount = [lib \in DOMAIN PluginLibraries |-> 0]
    /\ pluginLog = <<>>
    /\ destroyed = FALSE
    /\ registered = [i \in DOMAIN ModuleClasses |-> i]
    /\ typeName = <<>>
    /\ operands = NoOperands
    /\ evaluated = NotEvaluated
    /\ exitStatus = NotExited
    /\ normalized = <<>>

Init ==
    /\ Loaded
    /\ resolveIn = NoResolveInput
    /\ resolveOut = Pending

Next ==
    \/ \E req \in ReplaceByNameRequests : PluginReplaceMethodInstructionsJson(req)
    \/ \E req \in ReplaceBySignatureRequests :
            PluginReplaceMethodInstructionsJsonBySignature(req)
    \/ \E outJson \in {"given", "null"} : PluginGetAllClassNamesJson(outJson)
    \/ \E r \in MetadataRequests : PluginGetClassMetadataJson(r[1], r[2], r[3])
    \/ \E r \in NativeRequests : HostSetNativeImpl(r[1], r[2])
    \/ \E className \in {s_Base, s_Derived, s_Nope} : HostCreateObject(className)
    \/ \E r \in StaticByNameRequests : InvokeStaticMethodByName(r[1], r[2], r[3])
    \/ \E r \in StaticByTargetRequests : InvokeStaticMethodByTarget(r[1], r[2], r[3])
    \/ \E obj \in DOMAIN heap, r \in InstanceByNameRequests :
            InvokeMethodByName(obj, r[1], r[2])
    \/ \E obj \in DOMAIN heap, r \in InstanceByTargetRequests :
            InvokeMethodByTarget(obj, r[1], r[2])
    \/ StepSimple
    \/ StepBranch
    \/ StepCall
    \/ StepReturn
    \/ \E whenUndefined \in UndefinedOutcomes : StepArithmetic(whenUndefined)
    \/ StepData
    \/ StepIf
    \/ StepWhile
    \/ StepBlockEnd
    \/ StepLoopControl
    \/ StepNestedRet
    \/ StepUnsupported

Spec == Init /\ [][Next]_vars

(***************************************************************************)
(* Overload resolution on its own: one resolution per behaviour, over the  *)
(* loaded module, for every class, name, requested signature and flag.     *)
(***************************************************************************)
MaxTypes == 2

RequestedTypeNames ==
    {s_System_String, s_string, s_int, s_Int, s_System_Int32, s_Foo, s_NS_Foo}

RequestedSignatures ==
    UNION {[1..n -> RequestedTypeNames] : n \in 0..MaxTypes}

ResolveInputs ==
    [cls : {Program, Base, Derived}, name : {s_F, s_H, s_G, s_K, s_Own, s_Inst, s_Nope},
     parameterTypes : RequestedSignatures, requireStatic : BOOLEAN]

InitResolve ==
    /\ Loaded
    /\ resolveIn \in ResolveInputs
    /\ resolveOut = Pending

Resolve ==
    /\ resolveOut = Pending
    /\ resolveOut' = ResolveOverloadOrThrow(resolveIn.cls,
                        Target(resolveIn.name, resolveIn.parameterTypes),
                        resolveIn.requireStatic)
    /\ UNCHANGED <<classes, registry, methods, heap, callStack, contextStack,
                   currentContext, output, hostResult, lastError, hostCalls, installed,
                   fetched, lastInvoke, lastReturn, lastDispatch, lastCall, lastBranch,
                   lastExec, resolveIn, plugins, openCount, pluginLog, destroyed,
                   registered, typeName, operands, evaluated, normalized, exitStatus>>

NextResolve == Resolve

SpecResolve == InitResolve /\ [][NextResolve]_vars

(***************************************************************************)
(* The plugin loader on its own: the host loads libraries, unloads them    *)
(* and destroys the VM.                                                    *)
(***************************************************************************)
MaxPluginCalls == 3

PluginBecomes(P) ==
    /\ plugins' = P.plugins
    /\ openCount' = P.openCount
    /\ pluginLog' = P.pluginLog
    /\ hostResult' = P.hostResult
    /\ UNCHANGED <<classes, registry, methods, heap, callStack, contextStack,
                   currentContext, output, lastError, installed, fetched, lastInvoke,
                   lastReturn, lastDispatch, lastCall, lastBranch, lastExec, resolveIn,
                   resolveOut, registered, typeName, operands, evaluated,
                   normalized, exitStatus>>

LoadPlugin(path) ==
    /\ ~destroyed
    /\ hostCalls < MaxPluginCalls
    /\ hostCalls' = hostCalls + 1
    /\ PluginBecomes(LoadPluginResult(PluginState, path))
    /\ UNCHANGED destroyed

UnloadAllPlugins ==
    /\ ~destroyed
    /\ hostCalls < MaxPluginCalls
    /\ hostCalls' = hostCalls + 1
    /\ PluginBecomes(UnloadAllPluginsResult(PluginState))
    /\ UNCHANGED destroyed

\* VirtualMachine::~VirtualMachine
DestroyVirtualMachine ==
    /\ ~destroyed
    /\ destroyed' = TRUE
    /\ PluginBecomes(UnloadAllPluginsResult(PluginState))
    /\ UNCHANGED hostCalls

NextPlugin ==
    \/ \E path \in PluginPaths : LoadPlugin(path)
    \/ UnloadAllPlugins
    \/ DestroyVirtualMachine

SpecPlugin == Init /\ [][NextPlugin]_vars

(***************************************************************************)
(* The class registry on its own: the classes of the module are registered *)
(* one at a time, in any order and any number of times.                    *)
(***************************************************************************)
MaxRegistrations == 4

InitRegister ==
    /\ classes = ModuleClasses
    /\ registry = {}
    /\ registered = <<>>
    /\ methods = ModuleMethods
    /\ heap = <<>>
    /\ callStack = <<>>
    /\ contextStack = <<>>
    /\ currentContext = NoMethod
    /\ output = <<>>
    /\ hostResult = NoResult
    /\ lastError = "none"
    /\ hostCalls = 0
    /\ installed = [m \in DOMAIN methods |-> NotInstalled]
    /\ fetched = NoFetch
    /\ lastInvoke = NoInvoke
    /\ lastReturn = NoReturn
    /\ lastDispatch = NoDispatch
    /\ lastCall = NoCall
    /\ lastBranch = NoBranch
    /\ lastExec = NoExec
    /\ plugins = <<>>
    /\ openCount = [lib \in DOMAIN PluginLibraries |-> 0]
    /\ pluginLog = <<>>
    /\ destroyed = FALSE
    /\ resolveIn = NoResolveInput
    /\ resolveOut = Pending
    /\ typeName = <<>>
    /\ operands = NoOperands
    /\ evaluated = NotEvaluated
    /\ exitStatus = NotExited
    /\ normalized = <<>>

\* VirtualMachine::RegisterClass(classType)
VMRegisterClass(cls) ==
    /\ Len(registered) < MaxRegistrations
    /\ registry' = RegisterClass(registry, cls, classes[cls])
    /\ registered' = Append(registered, cls)
    /\ UNCHANGED <<classes, methods, heap, callStack, contextStack, currentContext,
                   output, hostResult, lastError, hostCalls, installed, fetched,
                   lastInvoke, lastReturn, lastDispatch, lastCall, lastBranch, lastExec,
                   resolveIn, resolveOut, plugins, openCount, pluginLog, destroyed,
                   typeName, operands, evaluated, normalized, exitStatus>>

NextRegister == \E cls \in DOMAIN ModuleClasses : VMRegisterClass(cls)

SpecRegister == InitRegister /\ [][NextRegister]_vars

(***************************************************************************)
(* Type-name normalization on its own: one name per behaviour, normalized  *)
(* and the result normalized again.                                        *)
(***************************************************************************)
MaxApplications == 2

PrimitiveAliases ==
    {s_system_void, s_void, s_system_string, s_string, s_system_boolean, s_bool,
     s_boolean, s_system_int32, s_int32, s_int, s_system_int64, s_int64, s_long,
     s_system_single, s_single, s_float, s_float32, s_system_double, s_double,
     s_float64, s_system_byte, s_byte, s_uint8, s_system_object, s_object}

UpperChar(c) ==
    IF \E i \in DOMAIN Lowers : Lowers[i] = c
    THEN Uppers[CHOOSE i \in DOMAIN Lowers : Lowers[i] = c]
    ELSE c

\* a name as written, in capitals, and with a capital first letter
LetterCases(name) ==
    {name, [i \in DOMAIN name |-> UpperChar(name[i])],
     [i \in DOMAIN name |-> IF i = 1 THEN UpperChar(name[i]) ELSE name[i]]}

Paddings == {<<>>, <<" ">>, <<"\t", " ">>}

TypeNameInputs ==
    {before \o name \o after :
        before \in Paddings, after \in Paddings,
        name \in UNION {LetterCases(alias) : alias \in PrimitiveAliases}
                  \cup {<<>>, s_Foo, s_NS_Foo, s_Program, s_System_Console,
                        <<"i", "n", "t", " ", "3", "2">>}}

InitNormalize ==
    /\ classes = ModuleClasses
    /\ registry = RegisterAll(ModuleClasses, Len(ModuleClasses))
    /\ registered = [i \in DOMAIN ModuleClasses |-> i]
    /\ methods = ModuleMethods
    /\ heap = <<>>
    /\ callStack = <<>>
    /\ contextStack = <<>>
    /\ currentContext = NoMethod
    /\ output = <<>>
    /\ hostResult = NoResult
    /\ lastError = "none"
    /\ hostCalls = 0
    /\ installed = [m \in DOMAIN methods |-> NotInstalled]
    /\ fetched = NoFetch
    /\ lastInvoke = NoInvoke
    /\ lastReturn = NoReturn
    /\ lastDispatch = NoDispatch
    /\ lastCall = NoCall
    /\ lastBranch = NoBranch
    /\ lastExec = NoExec
    /\ plugins = <<>>
    /\ openCount = [lib \in DOMAIN PluginLibraries |-> 0]
    /\ pluginLog = <<>>
    /\ destroyed = FALSE
    /\ resolveIn = NoResolveInput
    /\ resolveOut = Pending
    /\ exitStatus = NotExited
    /\ typeName \in TypeNameInputs
    /\ operands = NoOperands
    /\ evaluated = NotEvaluated
    /\ normalized = <<>>

\* NormalizeTypeName applied to the name, or to its own last result
Normalize ==
    /\ Len(normalized) < MaxApplications
    /\ normalized' = Append(normalized,
            NormalizeTypeName(IF normalized = <<>> THEN typeName ELSE Last(normalized)))
    /\ UNCHANGED <<classes, registry, methods, heap, callStack, contextStack,
                   currentContext, output, hostResult, lastError, hostCalls, installed,
                   fetched, lastInvoke, lastReturn, lastDispatch, lastCall, lastBranch,
                   lastExec, resolveIn, resolveOut, plugins, openCount, pluginLog,
                   destroyed, registered, typeName, operands, evaluated, exitStatus>>

NextNormalize == Normalize

SpecNormalize == InitNormalize /\ [][NextNormalize]_vars

(***************************************************************************)
(* The command-line driver: main loads the module, finds the entry class,  *)
(* invokes the entry method and returns the exit code.                     *)
(***************************************************************************)
Exited(code, stderr) == [exited |-> TRUE, code |-> code, stderr |-> stderr]

\* argv[2], or "Main.Main" when it is not given
EntryPoints ==
    {s_Main_Main, s_Main, s_Nope \o <<".">> \o s_Main}
    \cup {s_Program \o <<".">> \o name :
            name \in {s_Main, s_Nope, s_Count, s_Loop, s_Fields, s_Lines, s_Raise,
                      s_Stub, s_Jump, s_Crossing, s_Guarded, s_Nested, s_Self,
                      s_Arith, s_NegString, s_Quotient}}
    \cup {s_Base \o <<".">> \o s_V}

\* what the loader hands back: the VM, a null pointer, or an exception
LoaderOutcomes == {"loaded", "null", "throws"}

\* entryPoint.rfind('.') and the two halves around it
EntryClassName(entryPoint) == SubSeq(entryPoint, 1, FindLastOf(entryPoint, ".") - 1)

EntryMethodName(entryPoint) == SubstrFrom(entryPoint, FindLastOf(entryPoint, ".") + 1)

\* the entry class and method main settles on: the class named, or Program.Main
\* when the default entry point names no class
EntryOf(entryPoint) ==
    With(GetClass(EntryClassName(entryPoint)), LAMBDA named :
        IF named.ok
        THEN [ok |-> TRUE, cls |-> named.cls, methodName |-> EntryMethodName(entryPoint)]
        ELSE IF entryPoint = s_Main_Main /\ GetClass(s_Program).ok
        THEN [ok |-> TRUE, cls |-> GetClass(s_Program).cls, methodName |-> s_Main]
        ELSE [ok |-> FALSE, cls |-> NoClass, methodName |-> EntryMethodName(entryPoint)])

\* the exits main takes before it invokes anything
EarlyExit(loader, entryPoint) ==
    IF FindLastOf(entryPoint, ".") = 0 THEN Exited(1, "InvalidEntryPoint")
    ELSE IF loader = "throws" THEN Exited(1, "LoadError")
    ELSE IF loader = "null" THEN Exited(1, "FailedToLoad")
    ELSE IF ~EntryOf(entryPoint).ok THEN Exited(1, "EntryClassNotFound")
    ELSE NotExited

MainExits(loader, entryPoint) ==
    /\ ~exitStatus.exited
    /\ hostCalls = 0
    /\ EarlyExit(loader, entryPoint).exited
    /\ exitStatus' = EarlyExit(loader, entryPoint)
    /\ UNCHANGED <<classes, registry, methods, heap, callStack, contextStack,
                   currentContext, output, hostResult, lastError, hostCalls, installed,
                   fetched, lastInvoke, lastReturn, lastDispatch, lastCall, lastBranch,
                   lastExec, resolveIn, resolveOut, plugins, openCount, pluginLog,
                   destroyed, registered, typeName, operands, evaluated, normalized>>

\* vm->InvokeStaticMethod(entryClass, methodName, methodArgs) with no arguments
MainInvokes(entryPoint) ==
    /\ ~exitStatus.exited
    /\ hostCalls = 0
    /\ ~EarlyExit("loaded", entryPoint).exited
    /\ Becomes(With(EntryOf(entryPoint), LAMBDA entry :
            With(LookupMethod(entry.cls, entry.methodName), LAMBDA m :
                IF m = NoMethod THEN Throw(HostState, "MethodNotFound")
                ELSE Invoke(HostState, <<>>, m, NullObject, <<>>, "static_name",
                            HostCall))))

\* the code main returns once the invocation has ended: a runtime_error whose
\* text holds "Method has no implementation" is reported on stdout and main
\* returns 0; every other exception is written to stderr and main returns 1
ExitCode(result) ==
    IF result.kind = "error" /\ result.error # "Unimplemented"
    THEN Exited(1, result.error)
    ELSE Exited(0, "none")

MainReturns ==
    /\ ~exitStatus.exited
    /\ hostCalls = 1
    /\ ~Running
    /\ exitStatus' = ExitCode(hostResult)
    /\ UNCHANGED <<classes, registry, methods, heap, callStack, contextStack,
                   currentContext, output, hostResult, lastError, hostCalls, installed,
                   fetched, lastInvoke, lastReturn, lastDispatch, lastCall, lastBranch,
                   lastExec, resolveIn, resolveOut, plugins, openCount, pluginLog,
                   destroyed, registered, typeName, operands, evaluated, normalized>>

NextMain ==
    \/ \E loader \in LoaderOutcomes, entryPoint \in EntryPoints :
            MainExits(loader, entryPoint)
    \/ \E entryPoint \in EntryPoints : MainInvokes(entryPoint)
    \/ MainReturns
    \/ StepSimple
    \/ StepBranch
    \/ StepCall
    \/ StepReturn
    \/ \E whenUndefined \in UndefinedOutcomes : StepArithmetic(whenUndefined)
    \/ StepData
    \/ StepIf
    \/ StepWhile
    \/ StepBlockEnd
    \/ StepLoopControl
    \/ StepNestedRet
    \/ StepUnsupported

SpecMain == Init /\ [][NextMain]_vars
(***************************************************************************)
(* The arithmetic, comparison and two-operand branch opcodes applied to     *)
(* every pair of operand values.                                            *)
(***************************************************************************)
\* one Value or more of every variant
OperandValues ==
    {Null, BoolV(TRUE), BoolV(FALSE), StrV(<<>>), StrV(s_a), StrV(s_x),
     Int32V(0), Int32V(7), Int32V(0 - 2), Int64V(0), Int64V(7), Int64V(3),
     Float32V(Rational(1, 2)), Float32V(Rational(7, 1)), Float64V(Rational(3, 2)),
     Float64V(Rational(0, 1)), ObjV(NullObject), ObjV(1)}

CompareBranchOpCodes == {"Beq", "Bne", "Bgt", "Blt", "Bge", "Ble"}

InitOperands ==
    /\ classes = ModuleClasses
    /\ registry = RegisterAll(ModuleClasses, Len(ModuleClasses))
    /\ registered = [i \in DOMAIN ModuleClasses |-> i]
    /\ methods = ModuleMethods
    /\ heap = <<>>
    /\ callStack = <<>>
    /\ contextStack = <<>>
    /\ currentContext = NoMethod
    /\ output = <<>>
    /\ hostResult = NoResult
    /\ lastError = "none"
    /\ hostCalls = 0
    /\ installed = [m \in DOMAIN methods |-> NotInstalled]
    /\ fetched = NoFetch
    /\ lastInvoke = NoInvoke
    /\ lastReturn = NoReturn
    /\ lastDispatch = NoDispatch
    /\ lastCall = NoCall
    /\ lastBranch = NoBranch
    /\ lastExec = NoExec
    /\ plugins = <<>>
    /\ openCount = [lib \in DOMAIN PluginLibraries |-> 0]
    /\ pluginLog = <<>>
    /\ destroyed = FALSE
    /\ resolveIn = NoResolveInput
    /\ resolveOut = Pending
    /\ exitStatus = NotExited
    /\ typeName = <<>>
    /\ operands \in OperandValues \X OperandValues
    /\ evaluated = NotEvaluated
    /\ normalized = <<>>

\* Execute's Add, Sub, Mul, Div, Rem and Neg cases on an operand stack that
\* holds the left operand below the right one
EvaluateArithmetic(op, whenUndefined) ==
    /\ evaluated' =
          With(Operate(op, operands), LAMBDA result :
              [NotEvaluated EXCEPT
                 !.op = op,
                 !.outcome = IF result.kind = "undefined" THEN whenUndefined
                             ELSE result])
    /\ UNCHANGED <<classes, registry, methods, heap, callStack, contextStack,
                   currentContext, output, hostResult, lastError, hostCalls, installed,
                   fetched, lastInvoke, lastReturn, lastDispatch, lastCall, lastBranch,
                   lastExec, resolveIn, resolveOut, plugins, openCount, pluginLog,
                   destroyed, registered, typeName, normalized, exitStatus, operands>>

\* Execute's Ceq .. Cge cases on the same stack
EvaluateComparison(op) ==
    /\ evaluated' = [NotEvaluated EXCEPT !.op = op, !.outcome = Operate(op, operands)]
    /\ UNCHANGED <<classes, registry, methods, heap, callStack, contextStack,
                   currentContext, output, hostResult, lastError, hostCalls, installed,
                   fetched, lastInvoke, lastReturn, lastDispatch, lastCall, lastBranch,
                   lastExec, resolveIn, resolveOut, plugins, openCount, pluginLog,
                   destroyed, registered, typeName, normalized, exitStatus, operands>>

\* a two-operand branch of the dispatch loop on the same stack: it pops right,
\* then left, and compareBranch decides
EvaluateBranch(op) ==
    /\ evaluated' =
          With(CompareBranch(op, operands[1], operands[2]), LAMBDA cmp :
              [NotEvaluated EXCEPT
                 !.op = op,
                 !.outcome = IF cmp.ok THEN PushNothing ELSE Fail("TypeMismatch"),
                 !.taken = cmp.ok /\ cmp.cond])
    /\ UNCHANGED <<classes, registry, methods, heap, callStack, contextStack,
                   currentContext, output, hostResult, lastError, hostCalls, installed,
                   fetched, lastInvoke, lastReturn, lastDispatch, lastCall, lastBranch,
                   lastExec, resolveIn, resolveOut, plugins, openCount, pluginLog,
                   destroyed, registered, typeName, normalized, exitStatus, operands>>

NextOperands ==
    \/ \E op \in ArithmeticOpCodes, whenUndefined \in UndefinedOutcomes :
            EvaluateArithmetic(op, whenUndefined)
    \/ \E op \in ComparisonOpCodes : EvaluateComparison(op)
    \/ \E op \in CompareBranchOpCodes : EvaluateBranch(op)

SpecOperands == InitOperands /\ [][NextOperands]_vars

(***************************************************************************)
(* Properties.                                                             *)
(***************************************************************************)
\* C1: when native code called by the interpreter replaces a method's
\* instruction list while a frame is executing that method, every instruction
\* the frame executes after the swap is the old list's instruction at its ip.
C1_RunningFrameKeepsOldList ==
    (fetched.swapped /\ fetched.cur # NoInstruction) => fetched.cur = fetched.old

\* C2: once a replace call has succeeded for a method, every invocation of it
\* started afterwards executes the replacement list, whatever body form the
\* method had before and whatever the replacement list is.
C2_InvocationRunsReplacement ==
    lastInvoke.replaced =>
        /\ lastInvoke.form = "instructions"
        /\ lastInvoke.body = lastInvoke.replacement

\* C3: in every reachable state no Method holds both a non-empty instruction
\* list and a native implementation.
C3_AtMostOneBodyForm ==
    \A m \in DOMAIN methods : ~(HasInstructions(m) /\ HasNativeImpl(m))

\* C4: an instruction-bodied method declared void hands the null Value back on
\* every invoke path, whatever is left on its operand stack when it ends by
\* ret or by running past the last instruction.
C4_VoidReturnsNull ==
    (lastReturn.method # NoMethod /\ ReturnsVoid(lastReturn.method)) =>
        lastReturn.value = Null

\* C4 witness: a void method ended with a non-null value on top of its stack
C4_VoidEndedWithResidue ==
    /\ lastReturn.method # NoMethod
    /\ ReturnsVoid(lastReturn.method)
    /\ lastReturn.raw # Null
    /\ lastReturn.residual > 0

\* parameter count and canonical names of method m equal the normalized request
CanonicalMatch(m, parameterTypes) ==
    /\ Len(methods[m].parameters) = Len(parameterTypes)
    /\ \A i \in DOMAIN parameterTypes :
          CanonicalTypeName(methods[m].parameters[i].type, classes)
              = NormalizeTypeName(parameterTypes[i])

\* the candidates of a resolution: the methods of that name in the class and its
\* bases that the static requirement admits
Candidates(in) ==
    {m \in Range(CollectMethodsByName(in.cls, in.name)) :
        in.requireStatic => methods[m].isStatic}

\* C5: with a non-empty parameter-type list, resolution selects the one method
\* of that name whose parameter count and canonical parameter type names equal
\* the normalized request; with F(int32) and F(string), ["System.String"]
\* selects F(string), ["int"] selects F(int32), and [] is AmbiguousOverload.
C5_SelectsCanonicalMatch ==
    resolveOut # Pending =>
        /\ resolveIn.parameterTypes # <<>> =>
              \A m \in Candidates(resolveIn) :
                  ( /\ CanonicalMatch(m, resolveIn.parameterTypes)
                    /\ \A o \in Candidates(resolveIn) :
                          CanonicalMatch(o, resolveIn.parameterTypes) => o = m )
                  => resolveOut = Resolved(m)
        /\ (resolveIn.cls = Program /\ resolveIn.name = s_F) =>
              /\ resolveIn.parameterTypes = <<s_System_String>> =>
                    resolveOut = Resolved(4)
              /\ resolveIn.parameterTypes = <<s_int>> => resolveOut = Resolved(3)
              /\ resolveIn.parameterTypes = <<>> =>
                    resolveOut = ResolveFailed("AmbiguousOverload")

\* the parameter types of method m, in order
ParameterTypes(m) == [i \in DOMAIN methods[m].parameters |-> methods[m].parameters[i].type]

\* the receiver's class and one of its bases both define the requested method
DefinedInClassAndBase(cls, target) ==
    \E own \in Range(MethodsNamed(cls, target.name)) :
        /\ CanonicalMatch(own, target.parameterTypes)
        /\ \E inherited \in Range(CollectMethodsByName(classes[cls].baseClass,
                                                          target.name)) :
              ParameterTypes(inherited) = ParameterTypes(own)

\* C6: a callvirt whose receiver's class and one of its base classes both
\* define the requested name with the same parameter types succeeds and runs
\* the method of the most-derived class.
C6_CallVirtRunsMostDerived ==
    ( /\ lastDispatch.op = "CallVirt"
      /\ lastDispatch.receiverClass # NoClass
      /\ DefinedInClassAndBase(lastDispatch.receiverClass, lastDispatch.target) )
    => lastDispatch.found =
          Resolved(LookupMethod(lastDispatch.receiverClass, lastDispatch.target.name))

\* C7: a static invocation, by bare name or by call target, never executes a
\* method whose static flag is false.
C7_StaticInvokeRunsStaticOnly ==
    (lastInvoke.path \in {"static_name", "static_target"} /\ lastInvoke.form # "none")
        => methods[lastInvoke.method].isStatic

\* the depth the caller's stack has after a call that popped n arguments
DepthAfter(call, receivers) ==
    call.before - call.n - receivers + (IF call.isVoidReturn THEN 0 ELSE 1)

\* C8, as amended: for every call target other than System.Console.WriteLine,
\* call and callvirt pop N values (callvirt one more, the receiver), the callee
\* receives them in push order, and the caller's depth afterwards is the depth
\* before minus N (minus 1 for callvirt) plus 1 exactly when the target's return
\* type is non-void; for a WriteLine target N values are popped, no receiver
\* is popped and nothing is pushed.
C8_CallStackEffect ==
    /\ lastDispatch.op # "None" => lastDispatch.args = lastDispatch.pushed
    /\ (Running /\ Top.ip = 0 /\ ~Top.jumped /\ Top.call.op # "Host") =>
          Top.arguments = lastDispatch.pushed
    /\ (lastCall.done /\ ~lastCall.console) =>
          lastCall.after = DepthAfter(lastCall, IF lastCall.op = "CallVirt" THEN 1 ELSE 0)
    /\ (lastCall.done /\ lastCall.console) =>
          lastCall.after = lastCall.before - lastCall.n

\* C8 witness: a callvirt with two distinct arguments and a non-void target
\* has returned to its caller
C8_CallVirtReturned ==
    /\ lastCall.done
    /\ ~lastCall.console
    /\ lastCall.op = "CallVirt"
    /\ lastCall.n = 2
    /\ ~lastCall.isVoidReturn
    /\ lastDispatch.op = "CallVirt"
    /\ Len(lastDispatch.pushed) = 2
    /\ lastDispatch.pushed[1] # lastDispatch.pushed[2]

\* C8 as stated: the depth rule for every call target, WriteLine included
C8_DepthRuleForEveryTarget ==
    lastCall.done =>
        lastCall.after = DepthAfter(lastCall, IF lastCall.op = "CallVirt" THEN 1 ELSE 0)

\* C9: a taken branch whose operand is an integer inside the list or a key of
\* the label map makes the instruction at that index the next one executed; a
\* conditional branch not taken continues at ip + 1.
C9_BranchLandsOnTarget ==
    /\ (lastBranch.taken /\ lastBranch.hasOperandInt
            /\ InRange(lastBranch.operandInt, lastBranch.size)) =>
          (lastBranch.outcome = "jump" /\ lastBranch.next = lastBranch.operandInt)
    /\ (lastBranch.taken /\ lastBranch.isLabel) =>
          (lastBranch.outcome = "jump" /\ lastBranch.next = lastBranch.labelIndex)
    /\ lastBranch.outcome = "next" => lastBranch.next = lastBranch.ip + 1
    /\ (fetched.jumped /\ fetched.jumpWay \in {"int", "label"}) =>
          (fetched.ip = fetched.jumpIndex /\ fetched.cur # NoInstruction)

\* C10: a taken branch whose target is unresolved or outside the list fails
\* with BadBranchTarget, whichever way the target is resolved; no branch moves
\* ip outside the instruction list.
C10_BranchStaysInsideList ==
    /\ lastBranch.outcome = "jump" => InRange(lastBranch.next, lastBranch.size)
    /\ ~(fetched.jumped /\ fetched.cur = NoInstruction)

\* the net stack effect the instruction set documents for an opcode
StackEffect(op) ==
    CASE op \in {"Nop", "Neg"} -> 0
      [] op \in {"Dup", "LdArg", "LdLoc", "LdCon", "LdStr", "LdI4", "LdI8", "LdR4",
                 "LdR8", "LdTrue", "LdFalse", "LdNull", "NewObj"} -> 1
      [] op \in {"Pop", "StLoc", "StArg", "BrTrue", "BrFalse", "If", "Add", "Sub",
                 "Mul", "Div", "Rem"} \cup ComparisonOpCodes -> 0 - 1
      [] OTHER -> 0 - 2

EffectOpCodes ==
    {"Nop", "Neg", "Dup", "LdArg", "LdLoc", "LdCon", "LdStr", "LdI4", "LdI8", "LdR4",
     "LdR8", "LdTrue", "LdFalse", "LdNull", "NewObj", "Pop", "StLoc", "StArg",
     "BrTrue", "BrFalse", "If", "Add", "Sub", "Mul", "Div", "Rem", "Beq", "Bne",
     "Bgt", "Blt", "Bge", "Ble"} \cup ComparisonOpCodes

\* C11: for every opcode that completes without an error, the frame's stack
\* depth afterwards is the depth before plus the opcode's net effect: 0 for nop
\* and neg, +1 for the loads, dup and newobj, -1 for pop, the stores, brtrue,
\* brfalse, if, binary arithmetic and comparisons, -2 for beq .. ble.
C11_StackDepthFollowsNetEffect ==
    (lastExec.completed /\ lastExec.op \in EffectOpCodes) =>
        lastExec.after = lastExec.before + StackEffect(lastExec.op)

\* the value a load instruction pushes in the frame as it is now
CurrentValue(frame, load) ==
    CASE load.opCode = "LdLoc" -> frame.locals[LocalIndex(frame.method, load.identifier)]
      [] load.opCode = "LdI4"  -> Int32V(load.operandInt)
      [] load.opCode = "LdI8"  -> Int64V(load.operandInt)
      [] load.opCode = "LdR4"  -> Float32V(load.operandDouble)
      [] load.opCode = "LdR8"  -> Float64V(load.operandDouble)
      [] load.opCode = "LdTrue" -> BoolV(TRUE)
      [] load.opCode = "LdFalse" -> BoolV(FALSE)
      [] load.opCode = "LdNull" -> Null
      [] OTHER -> CreateConstantValue(load).v

\* the frame is about to compare the operands of a binary while of its
\* instruction list
AtListComparison(frame) ==
    /\ Len(frame.blocks) = 1
    /\ frame.blocks[1].kind = "cond"
    /\ frame.blocks[1].loop.condition.kind = "Binary"
    /\ frame.blocks[1].ip = Len(frame.blocks[1].list)

\* the load instructions just before the while the frame is at
LoadsBefore(frame) ==
    SelectSeq(SubSeq(Instructions(frame), 1, frame.ip),
              LAMBDA instr : instr.opCode \in SetupOpCodes)

Count == 15

Loop == 16

\* the list the frame runs at nesting depth d and its position in it
ListAt(frame, d) == IF d = 0 THEN Instructions(frame) ELSE frame.blocks[d].list

PositionAt(frame, d) == IF d = 0 THEN frame.ip ELSE frame.blocks[d].ip

\* the top frame is about to execute op inside a loop body of its own
LoopControlAt(op) ==
    /\ Running
    /\ Fetch(Top).opCode = op
    /\ InnermostBody(Top) # 0

\* after is the frame once break has ended the loop whose body is block k
BrokeOut(frame, k, after) ==
    /\ after.method = frame.method
    /\ Len(after.blocks) = k - 1
    /\ \A d \in 1..(k - 2) : after.blocks[d] = frame.blocks[d]
    /\ ListAt(frame, k - 1)[PositionAt(frame, k - 1) + 1].opCode = "While"
    /\ PositionAt(after, k - 1) = PositionAt(frame, k - 1) + 1

\* after is the frame once continue has gone back to the condition of the loop
\* whose body is block k
Restarted(frame, k, after) ==
    /\ after.method = frame.method
    /\ Len(after.blocks) = k
    /\ \A d \in 1..(k - 1) : after.blocks[d] = frame.blocks[d]
    /\ PositionAt(after, k - 1) = PositionAt(frame, k - 1)
    /\ after.blocks[k].kind = "cond"
    /\ after.blocks[k].ip = 0
    /\ after.blocks[k].loop = frame.blocks[k].loop

\* C13: inside a while body, an if nested in it included, break ends the
\* innermost enclosing loop and the instruction after that while is next;
\* continue leaves the rest of the body and the loop's condition is evaluated
\* again; either way the frame stays on the call stack and nothing fails.
C13_BreakAndContinueStayInFrame ==
    [][ /\ (LoopControlAt("Break") \/ LoopControlAt("Continue")) =>
              /\ Len(callStack') = Len(callStack)
              /\ hostResult' = hostResult
              /\ lastError' = lastError
        /\ LoopControlAt("Break") =>
              BrokeOut(Top, InnermostBody(Top), callStack'[Len(callStack)])
        /\ LoopControlAt("Continue") =>
              Restarted(Top, InnermostBody(Top), callStack'[Len(callStack)])
        /\ lastReturn'.method = Loop => lastReturn'.value = Int32V(4)
      ]_vars

\* C13 witness: the break inside the if of the outer body has ended the outer
\* loop in the iteration where i is 4, after the continue of the iteration i = 2
C13_BrokeOutOfNestedIf ==
    /\ Running
    /\ Top.method = Loop
    /\ lastExec.op = "Break"
    /\ lastExec.completed
    /\ Top.blocks = <<>>
    /\ Top.ip = 5
    /\ Top.locals[1] = Int32V(4)
    /\ output = s_x \o <<"\n">> \o s_x \o <<"\n">>

Fields == 19

\* the top frame is about to execute op, a field access that names a field
FieldAccessAt(op) ==
    /\ Running
    /\ Fetch(Top).opCode = op
    /\ FieldName(Fetch(Top)) # <<>>

\* the frame has a this and no instance was pushed for the access: the stack
\* holds nothing but the value StFld stores, and nothing at all for LdFld
OnThisOnly(op) ==
    /\ FieldAccessAt(op)
    /\ Top.this # NullObject
    /\ Len(Top.stack) = (IF op = "StFld" THEN 1 ELSE 0)

\* a static frame, and the value where the instance would be is no object
NoInstanceAt(op) ==
    /\ FieldAccessAt(op)
    /\ Top.this = NullObject
    /\ Len(Top.stack) >= (IF op = "StFld" THEN 1 ELSE 0)
    /\ ~\E v \in Range(Top.stack) : IsObject(v)

\* C14: in an instance method stfld f with only the value on the stack writes f
\* of this, and ldfld f with an empty stack pushes what f of this holds;
\* newobj, Set(42), Get() returns 42; in a static frame with no object on the
\* stack both fail with NoInstance and no field is written.
C14_FieldAccessFallsBackToThis ==
    [][ /\ OnThisOnly("StFld") =>
              /\ Running'
              /\ HasField(heap'[Top.this], FieldName(Fetch(Top)))
              /\ GetField(heap'[Top.this], FieldName(Fetch(Top))) = Last(Top.stack)
              /\ \A o \in DOMAIN heap : o # Top.this => heap'[o] = heap[o]
        /\ (OnThisOnly("LdFld") /\ HasField(heap[Top.this], FieldName(Fetch(Top)))) =>
              /\ Running'
              /\ callStack'[Len(callStack)].stack =
                    << GetField(heap[Top.this], FieldName(Fetch(Top))) >>
              /\ heap' = heap
        /\ (NoInstanceAt("LdFld") \/ NoInstanceAt("StFld")) =>
              /\ hostResult' = Failure("NoInstance")
              /\ heap' = heap
        /\ lastReturn'.method = Fields => lastReturn'.value = Int32V(42)
      ]_vars

\* C14 witness: Get has read through this the 42 that Set stored through this
C14_GetReadWhatSetStored ==
    /\ Running
    /\ methods[Top.method].name = s_Get
    /\ lastExec.op = "LdFld"
    /\ lastExec.before = 0
    /\ Top.stack = << Int32V(42) >>
    /\ Len(callStack) = 2
    /\ callStack[1].method = Fields
    /\ GetField(heap[Top.this], s_f) = Int32V(42)

\* get_field is defined and null for every field declared along the base chain
\* of the object's class
DeclaredFieldsNull(object) ==
    \A c \in Range(BaseChain(object.cls)) :
        \A f \in Range(classes[c].fields) :
            HasField(object, f) /\ GetField(object, f) = Null

\* C15: the object create_instance(C) returns has get_field(f) defined and
\* equal to the null Value for every field f declared on C or on a class of
\* its base chain, before any set_field: for every class of the module, and
\* for every object a step adds to the heap.
C15_CreatedFieldsAreNull ==
    [][ /\ \A c \in DOMAIN classes : DeclaredFieldsNull(CreateInstance(c))
        /\ Len(heap') > Len(heap) =>
              /\ Len(heap') = Len(heap) + 1
              /\ DeclaredFieldsNull(heap'[Len(heap')])
      ]_vars

\* C15 witness: the host has created a Derived, whose fields are g of Derived
\* and f of its base class
C15_DerivedCreated ==
    /\ heap # <<>>
    /\ hostResult = Returned(ObjV(Len(heap)))
    /\ heap[Len(heap)].cls = Derived
    /\ classes[Derived].fields = << s_g >>
    /\ classes[classes[Derived].baseClass].fields = << s_f >>
    /\ GetField(heap[Len(heap)], s_f) = Null
    /\ GetField(heap[Len(heap)], s_g) = Null

\* classType is a class of the chain of cls, or an interface a class of that
\* chain implements
InChainOrImplemented(cls, classType) ==
    \/ classType \in Range(BaseChain(cls))
    \/ \E c \in Range(BaseChain(cls)) : ImplementsInterface(c, classType)

\* C16: for an object of class D, is_instance_of(obj, D) is true, and
\* is_instance_of(obj, C) is true whenever C is a class of D's base chain or
\* an interface implemented by a class of that chain.
C16_InstanceOfChainAndInterfaces ==
    \A o \in DOMAIN heap :
        /\ IsInstanceOf(heap[o], heap[o].cls)
        /\ \A c \in DOMAIN classes :
              InChainOrImplemented(heap[o].cls, c) => IsInstanceOf(heap[o], c)

\* the top frame is about to execute a call or callvirt of Console.WriteLine
\* with its k arguments on the stack
WriteLineAt ==
    /\ Running
    /\ Fetch(Top).opCode \in {"Call", "CallVirt"}
    /\ Fetch(Top).hasCallTarget
    /\ IsConsoleWriteLine(Fetch(Top).callTarget)
    /\ Len(Top.stack) >= Len(Fetch(Top).callTarget.parameterTypes)

\* the display string of an argument: empty for null
DisplayString(v) == IF IsNull(v) THEN <<>> ELSE ValueToString(v)

\* the display strings of the values, in order, one space between neighbours
RECURSIVE SpaceSeparated(_)
SpaceSeparated(values) ==
    IF values = <<>> THEN <<>>
    ELSE IF Len(values) = 1 THEN DisplayString(values[1])
    ELSE DisplayString(values[1]) \o <<" ">> \o SpaceSeparated(Tail(values))

\* the k values on top of the stack, in push order
TopValues(stack, k) == SubSeq(stack, Len(stack) - k + 1, Len(stack))

\* C17: a call or callvirt of System.Console.WriteLine with k parameter types
\* appends to the output the display strings of its k arguments in parameter
\* order with one space between them and one newline after them (a null
\* argument gives the empty string, k = 0 only the newline); no method is
\* resolved or invoked, the k arguments are popped and nothing is pushed.
C17_WriteLineWritesArguments ==
    [][ WriteLineAt =>
          /\ output' = output
                \o SpaceSeparated(TopValues(Top.stack,
                                            Len(Fetch(Top).callTarget.parameterTypes)))
                \o <<"\n">>
          /\ Len(callStack') = Len(callStack)
          /\ Top' = Advance(Top, SubSeq(Top.stack, 1,
                        Len(Top.stack) - Len(Fetch(Top).callTarget.parameterTypes)))
          /\ lastInvoke' = lastInvoke
          /\ lastDispatch'.found = ResolveFailed("none")
          /\ hostResult' = hostResult
      ]_vars

Lines == 22

\* C17 witness: Lines has written the empty line, the null with the 7, and
\* the "a" with the null
C17_ThreeLinesWritten ==
    /\ Running
    /\ Top.method = Lines
    /\ lastDispatch.console
    /\ lastDispatch.args = << StrV(s_a), Null >>
    /\ output = << "\n", " ", "7", "\n", "a", " ", "\n" >>
    /\ Top.stack = <<>>

Quotient == 23

\* the top frame is about to execute div with an integer zero as right operand
DivByZeroAt ==
    /\ Running
    /\ Fetch(Top).opCode = "Div"
    /\ Len(Top.stack) >= 2
    /\ Last(Top.stack).t \in {"int32", "int64"}
    /\ Last(Top.stack).i = 0

\* C18: div whose right operand is an int32 or int64 zero fails with
\* DivideByZero: no result is pushed, no later instruction of the method
\* runs, and nothing is written to the output.
C18_DivByIntegerZeroFails ==
    [][ /\ DivByZeroAt =>
              /\ hostResult' = Failure("DivideByZero")
              /\ callStack' = <<>>
              /\ output' = output
              /\ lastExec'.op = "Div"
              /\ ~lastExec'.completed
        /\ (Running /\ Top.method = Quotient /\ Top.arguments[2].i = 0) =>
              /\ Top.ip <= 2
              /\ output' = output
      ]_vars

\* C18 witness: Quotient(10, 0) with the int64 zero has failed at its div,
\* with nothing written
C18_DividedByInt64Zero ==
    /\ hostResult = Failure("DivideByZero")
    /\ lastExec.op = "Div"
    /\ lastExec.method = Quotient
    /\ lastExec.before = 2
    /\ lastExec.operand = "int64"
    /\ fetched.ip = 2
    /\ output = <<>>
    /\ hostCalls = 1

\* the step is a LoadPlugin that opened the library lib
LoadStep(lib) ==
    /\ Len(pluginLog') > Len(pluginLog)
    /\ pluginLog'[Len(pluginLog) + 1] = [event |-> "dlopen", lib |-> lib]

\* the events the step added to the log
NewEvents == SubSeq(pluginLog', Len(pluginLog) + 1, Len(pluginLog'))

Called(events, event) == \E i \in DOMAIN events : events[i].event = event

\* the runtime's version lies within the range the library declares, a zero
\* bound being no bound
WithinDeclaredRange(library) ==
    /\ library.abiMinPacked = 0
          \/ library.abiMinPacked <= OBJECTIR_PLUGIN_ABI_VERSION_PACKED
    /\ library.abiMaxPacked = 0
          \/ OBJECTIR_PLUGIN_ABI_VERSION_PACKED <= library.abiMaxPacked

\* the library whose info function declares the range [min, max]
Declares(lib, min, max) ==
    /\ PluginLibraries[lib].info = "returns 1"
    /\ PluginLibraries[lib].abiMinPacked = OBJECTIR_PLUGIN_ABI_PACKED(min[1], min[2])
    /\ PluginLibraries[lib].abiMaxPacked = OBJECTIR_PLUGIN_ABI_PACKED(max[1], max[2])

\* C19: a plugin whose info function succeeds passes the handshake exactly
\* when the runtime's packed ABI version 1.0 lies within the declared range
\* [min, max], a zero bound meaning no bound: [1.0, 1.65535] is accepted and
\* [2.0, 2.0] is rejected with AbiIncompatible; for a rejected plugin init is
\* not called, the library is closed again and no plugin is recorded.
C19_AbiHandshake ==
    [][ \A lib \in DOMAIN PluginLibraries :
          (LoadStep(lib) /\ PluginLibraries[lib].info = "returns 1") =>
              /\ WithinDeclaredRange(PluginLibraries[lib]) =>
                    /\ hostResult' # Failure("AbiIncompatible")
                    /\ PluginLibraries[lib].init # "absent" => Called(NewEvents, "Init")
              /\ ~WithinDeclaredRange(PluginLibraries[lib]) =>
                    /\ hostResult' = Failure("AbiIncompatible")
                    /\ ~Called(NewEvents, "Init")
                    /\ openCount' = openCount
                    /\ plugins' = plugins
              /\ Declares(lib, <<1, 0>>, <<1, 65535>>) =>
                    hostResult' # Failure("AbiIncompatible")
              /\ Declares(lib, <<2, 0>>, <<2, 0>>) =>
                    hostResult' = Failure("AbiIncompatible")
      ]_vars

\* C19 witness: after the plugin declaring [1.0, 1.65535] was loaded, the one
\* declaring [2.0, 2.0] has been rejected and closed
C19_RejectedAfterAccepted ==
    /\ hostResult = Failure("AbiIncompatible")
    /\ Len(plugins) = 1
    /\ Declares(plugins[1].handle, <<1, 0>>, <<1, 65535>>)
    /\ Len(pluginLog) = 6
    /\ pluginLog[4].event = "dlopen"
    /\ Declares(pluginLog[4].lib, <<2, 0>>, <<2, 0>>)
    /\ pluginLog[5].event = "GetInfo"
    /\ pluginLog[6] = [event |-> "dlclose", lib |-> pluginLog[4].lib]
    /\ openCount[pluginLog[4].lib] = 0

\* the handshake lets the library through to the resolution of its init symbol
PassesHandshake(library) ==
    \/ library.info = "absent"
    \/ library.info = "returns 1" /\ WithinDeclaredRange(library)

\* the number of entries of _plugins that hold a handle of lib
Recordings(lib) == Cardinality({i \in DOMAIN plugins : plugins[i].handle = lib})

\* C20: LoadPlugin fails with PluginMissingEntry when the library has no init
\* symbol and with PluginInitFailed when init returns false or throws; in
\* every failing outcome the library is released, no plugin is added to the
\* list, and its shutdown hook is called neither then nor at unload or
\* teardown, where only recorded plugins are shut down.
C20_FailedLoadLeavesNothing ==
    [][ /\ \A lib \in DOMAIN PluginLibraries :
              (LoadStep(lib) /\ PassesHandshake(PluginLibraries[lib])) =>
                  /\ PluginLibraries[lib].init = "absent" =>
                        hostResult' = Failure("PluginMissingEntry")
                  /\ PluginLibraries[lib].init
                          \in {"returns false", "throws std::exception", "throws"} =>
                        hostResult' = Failure("PluginInitFailed")
        /\ (hostCalls' = hostCalls + 1 /\ hostResult'.kind = "error") =>
              /\ openCount' = openCount
              /\ plugins' = plugins
              /\ ~Called(NewEvents, "Shutdown")
        /\ \A i \in DOMAIN NewEvents :
              NewEvents[i].event = "Shutdown" => Recordings(NewEvents[i].lib) > 0
        /\ \A lib \in DOMAIN PluginLibraries : openCount'[lib] = Recordings(lib)'
      ]_vars

\* C20 witness: a plugin was loaded, the load of a library whose init throws
\* failed, and at teardown only the loaded plugin was shut down
C20_TornDownAfterFailedLoad ==
    /\ destroyed
    /\ Len(pluginLog) = 8
    /\ pluginLog[4].event = "dlopen"
    /\ PluginLibraries[pluginLog[4].lib].init = "throws std::exception"
    /\ pluginLog[5] = [event |-> "Init", lib |-> pluginLog[4].lib]
    /\ pluginLog[6] = [event |-> "dlclose", lib |-> pluginLog[4].lib]
    /\ pluginLog[7] = [event |-> "Shutdown", lib |-> pluginLog[1].lib]
    /\ pluginLog[8] = [event |-> "dlclose", lib |-> pluginLog[1].lib]
    /\ \A lib \in DOMAIN PluginLibraries : openCount[lib] = 0

\* what shutting down one recorded plugin adds to the log: the call of its
\* hook, if it has one, and then the release of its library
ShutdownOf(plugin) ==
    (IF plugin.shutdown = "absent" THEN <<>>
     ELSE << [event |-> "Shutdown", lib |-> plugin.handle] >>)
    \o << [event |-> "dlclose", lib |-> plugin.handle] >>

\* the shutdowns of the plugins of the list, the one loaded last first
RECURSIVE ReverseShutdown(_)
ReverseShutdown(list) ==
    IF list = <<>> THEN <<>>
    ELSE ShutdownOf(Last(list)) \o ReverseShutdown(Front(list))

\* C21: at UnloadAllPlugins and at VM destruction the plugins are shut down
\* in exactly the reverse of the order of their successful loads, each hook
\* (if any) before the release of its library, a throwing hook does not stop
\* the remaining shutdowns, and afterwards the plugin list is empty.
C21_ShutdownInReverseLoadOrder ==
    [][ /\ \A lib \in DOMAIN PluginLibraries :
              (LoadStep(lib) /\ hostResult'.kind = "value") =>
                  /\ Len(plugins') = Len(plugins) + 1
                  /\ Front(plugins') = plugins
                  /\ Last(plugins').handle = lib
        /\ (destroyed' # destroyed \/ hostResult' = Returned(Null)) =>
              /\ NewEvents = ReverseShutdown(plugins)
              /\ plugins' = <<>>
      ]_vars

\* C21 witness: two plugins were loaded, the second with a shutdown hook that
\* throws; the second was shut down first and the first after it
C21_BothShutDownAfterThrow ==
    /\ plugins = <<>>
    /\ Len(pluginLog) = 10
    /\ pluginLog[1].lib # pluginLog[4].lib
    /\ PluginLibraries[pluginLog[4].lib].shutdown = "throws"
    /\ pluginLog[7] = [event |-> "Shutdown", lib |-> pluginLog[4].lib]
    /\ pluginLog[8] = [event |-> "dlclose", lib |-> pluginLog[4].lib]
    /\ pluginLog[9] = [event |-> "Shutdown", lib |-> pluginLog[1].lib]
    /\ pluginLog[10] = [event |-> "dlclose", lib |-> pluginLog[1].lib]

\* the step is a call of one of the four status-returning functions of the plugin API
StatusCall ==
    \/ \E req \in ReplaceByNameRequests : PluginReplaceMethodInstructionsJson(req)
    \/ \E req \in ReplaceBySignatureRequests :
            PluginReplaceMethodInstructionsJsonBySignature(req)
    \/ \E outJson \in {"given", "null"} : PluginGetAllClassNamesJson(outJson)
    \/ \E r \in MetadataRequests : PluginGetClassMetadataJson(r[1], r[2], r[3])

\* C22: a call of a status-returning plugin API function ends with a status and
\* never with an exception; status 0 leaves a non-empty last error and status 1
\* leaves the last error empty.
C22_StatusMatchesLastError ==
    [][ StatusCall =>
            /\ hostResult'.kind = "status"
            /\ hostResult'.value \in {Int32V(0), Int32V(1)}
            /\ hostResult'.value = Int32V(0) => lastError' # "none"
            /\ hostResult'.value = Int32V(1) => lastError' = "none"
      ]_vars

\* a replacement succeeded and the next call, made with a null pointer, failed
C22_FailedAfterSuccess ==
    /\ hostCalls = 2
    /\ hostResult = Status(0)
    /\ lastError = "InvalidArguments"
    /\ \E m \in DOMAIN methods : installed[m].done

\* C23: for the same class, name and requested parameter types, the method the
\* by-signature replacement looks up is the method invocation resolves (with no
\* restriction to static methods), and one fails exactly when the other does.
C23_BySignatureAgreesWithResolution ==
    (resolveOut # Pending /\ ~resolveIn.requireStatic) =>
        With(FindMethodBySignatureOrThrow(resolveIn.cls, resolveIn.name,
                                          resolveIn.parameterTypes), LAMBDA found :
            /\ found.ok = resolveOut.ok
            /\ found.method = resolveOut.method)

\* the class GetClass(name) returns, NoClass when it throws
Lookup(name) == IF GetClass(name).ok THEN GetClass(name).cls ELSE NoClass

\* no other registered class has the qualified name of cls
UniquelyQualified(cls) ==
    \A i \in DOMAIN registered :
        registered[i] # cls =>
            GetQualifiedClassName(classes[registered[i]])
                # GetQualifiedClassName(classes[cls])

\* C24: every registered class is found under its simple, raw and qualified
\* names, and a class whose qualified name no other registered class has is the
\* class its qualified name finds.
C24_RegisteredClassesAreFound ==
    \A i \in DOMAIN registered :
        With(classes[registered[i]], LAMBDA cls :
            /\ Lookup(SimpleNameOf(cls.name)) # NoClass
            /\ Lookup(cls.name) # NoClass
            /\ Lookup(GetQualifiedClassName(cls)) # NoClass
            /\ UniquelyQualified(registered[i]) =>
                    Lookup(GetQualifiedClassName(cls)) = registered[i])

\* the literal an instruction carries, whichever of the three members holds it
Literal(instr) ==
    IF instr.constantRawValue # <<>> THEN instr.constantRawValue
    ELSE IF instr.operandString # <<>> THEN instr.operandString
    ELSE IntToString(instr.operandInt)

RECURSIVE SameInstructions(_, _)

\* the same opcode with the same operands, the literal in any representation
SameInstruction(a, b) ==
    /\ a.opCode = b.opCode
    /\ a.identifier = b.identifier
    /\ Literal(a) = Literal(b)
    /\ a.constantIsNull = b.constantIsNull
    /\ a.opCode = "LdCon" => a.constantType = b.constantType
    /\ a.hasCallTarget = b.hasCallTarget
    /\ a.callTarget = b.callTarget
    /\ a.fieldTarget.name = b.fieldTarget.name
    /\ a.condition.kind = b.condition.kind
    /\ a.condition.comparisonOp = b.condition.comparisonOp
    /\ SameInstructions(a.condition.expressionInstructions,
                        b.condition.expressionInstructions)
    /\ SameInstructions(a.body, b.body)
    /\ SameInstructions(a.thenBlock, b.thenBlock)
    /\ SameInstructions(a.elseBlock, b.elseBlock)

SameInstructions(first, second) ==
    /\ Len(first) = Len(second)
    /\ \A i \in DOMAIN first : SameInstruction(first[i], second[i])

\* the exported instruction array decodes, and to the list it was exported from
DecodesBackTo(exported, instructions) ==
    With(CompileInstructions(exported.items), LAMBDA again :
        /\ again.ok
        /\ SameInstructions(instructions, again.instructions))

\* C25: the instructions of every method in an exported class, decoded again,
\* are the method's instruction list: the same opcodes in the same order with
\* the same operands, whichever member represents a literal.
C25_ExportedInstructionsDecodeBack ==
    hostResult.json # NoJson =>
        With(classes[GetClass(hostResult.json.fullName).cls].methods, LAMBDA ids :
            \A i \in DOMAIN ids :
                hostResult.json.methods[i].instructions.k = "array" =>
                    DecodesBackTo(hostResult.json.methods[i].instructions,
                                  methods[ids[i]].instructions))

\* C26: normalizing a normalized type name gives the same name.
C26_NormalizeIsIdempotent ==
    Len(normalized) >= 2 => normalized[2] = normalized[1]

\* a padded alias in capitals was normalized twice to its canonical spelling
C26_PaddedAliasNormalizedTwice ==
    /\ Len(normalized) = 2
    /\ typeName = <<" ">> \o [i \in DOMAIN s_system_int32 |->
                                UpperChar(s_system_int32[i])] \o <<"\t", " ">>
    /\ normalized[1] = s_int32
    /\ normalized[2] = s_int32

\* C27: main returns 0 only when the entry invocation ended without a failure,
\* and every failure gives exit code 1 with a message on standard error.
C27_ExitCodeTellsFailure ==
    exitStatus.exited =>
        /\ exitStatus.code = 0 => hostResult.kind = "value"
        /\ hostResult.kind = "error" =>
                exitStatus.code = 1 /\ exitStatus.stderr # "none"

\* C28: once the outermost invocation has ended, with a value or with an error,
\* the context stack is as deep as before it started and the VM has no current
\* frame.
C28_ContextStackRestored ==
    ~Running => (contextStack = <<>> /\ currentContext = NoMethod)

\* the blocks a frame is inside, outermost first: its ifs and its whiles, each
\* while at its condition or in its body
LoopsOf(frame) == [d \in DOMAIN frame.blocks |-> frame.blocks[d].kind]

\* the top frame, called by another, is about to execute break or continue
\* with no while of its own around it
LoopControlInCallee ==
    /\ Len(callStack) > 1
    /\ Fetch(Top).opCode \in {"Break", "Continue"}
    /\ InnermostBody(Top) = 0

\* C29: a break or continue executed in a called frame outside any while of
\* that frame ends or restarts no while of a calling frame: either the run
\* fails, or every calling frame is inside the same loops as before.
C29_LoopControlStaysInFrame ==
    [][ LoopControlInCallee =>
            \/ ~Running'
            \/ /\ Len(callStack') >= Len(callStack) - 1
               /\ \A i \in 1..(Len(callStack) - 1) :
                     LoopsOf(callStack'[i]) = LoopsOf(callStack[i])
      ]_vars

\* C30: a ret ends the invocation wherever it is executed, at the top level of
\* the method or inside a then/else block or a while body: the step that
\* executes it removes the frame, so no further instruction of it runs.
C30_RetEndsInvocation ==
    [][ (Running /\ Fetch(Top).opCode = "Ret") =>
            Len(callStack') < Len(callStack) ]_vars

\* C31: once an instruction fails, nothing catches the error: the step in which
\* an instruction of a running invocation fails leaves no frame on the call
\* stack, the callers' included, writes nothing, and makes the error the result
\* of the outermost invocation; throw and the opcodes without a case always
\* fail. With no frame left no further instruction runs and nothing more is
\* written.
C31_ErrorsEndEveryFrame ==
    [][ /\ (Running /\ Fetch(Top).opCode \in UnsupportedOpCodes) =>
                hostResult'.error = "Unsupported"
        /\ (Running /\ hostResult'.kind = "error") =>
                /\ callStack' = <<>>
                /\ output' = output
                /\ ~lastExec'.completed
      ]_vars

\* C31 witness: throw failed in Raise, called from the then-block of an if in
\* the body of Guarded's loop: one line was written before the call, none after
C31_RaisedUnderLoopAndIf ==
    /\ ~Running
    /\ hostResult.error = "Unsupported"
    /\ lastExec.op = "Throw"
    /\ output = s_x \o <<"\n">>

Nested == 31

\* C32: a binary while behaves the same in a then-block as in the method's
\* instruction list: the counted loop of Count, placed in a then-block, fails
\* in no instruction and returns what Count returns, int32 10.
C32_NestedBinaryWhileAsListed ==
    /\ lastExec.method = Nested => lastExec.completed
    /\ (~Running /\ lastInvoke.method = Nested) => hostResult = Returned(Int32V(10))

\* the frame has just left a binary while of its instruction list
LeftListedWhile(frame) ==
    /\ ~InBlock(frame)
    /\ frame.ip \in 1..Len(Instructions(frame))
    /\ Instructions(frame)[frame.ip].opCode = "While"
    /\ Instructions(frame)[frame.ip].condition.kind = "Binary"

\* C33: a binary while of the instruction list consumes its condition operands.
\* In Count the two loads before the loop start on an empty operand stack and
\* the body is stack-neutral: the stack is empty again when the loop is left,
\* and the ret after the following load finds only the loaded value.
C33_BinaryWhileLeavesNoOperand ==
    /\ \A f \in DOMAIN callStack :
          (callStack[f].method = Count /\ ~fetched.swapped
                /\ LeftListedWhile(callStack[f])) => callStack[f].stack = <<>>
    /\ lastReturn.method = Count => lastReturn.residual = 1

\* the step is the replace call req
ReplaceCall(req) ==
    \/ PluginReplaceMethodInstructionsJson(req)
    \/ PluginReplaceMethodInstructionsJsonBySignature(req)

\* the requests that name no class or no method of the class, name an
\* overloaded method, or pass JSON that is no array or has an undecodable node
MustFail(req) ==
    \/ req.className = s_Nope
    \/ req.methodName = s_Nope
    \/ ~req.bySignature /\ req.methodName = s_F
    \/ ~req.isArray
    \/ req.body = JUndecodable

\* C34: a failing replace call changes nothing: a call that names no class or
\* method, names an overloaded method, or passes JSON that is no array or has
\* an undecodable node returns 0, and every call that returns 0 leaves the body
\* of every method as it was.
C34_FailedReplaceChangesNothing ==
    [][ \A req \in ReplaceByNameRequests \cup ReplaceBySignatureRequests :
            ReplaceCall(req) =>
                /\ MustFail(req) => hostResult' = Status(0)
                /\ hostResult' = Status(0) =>
                      /\ methods' = methods
                      /\ installed' = installed
                      /\ classes' = classes
      ]_vars

\* C34 witness: a replace with an undecodable node failed after another replace
\* had installed a body, and that body is still the method's
C34_FailedAfterInstalled ==
    /\ hostCalls = 2
    /\ hostResult = Status(0)
    /\ lastError = "BadOpcode"
    /\ \E m \in DOMAIN methods :
          /\ installed[m].done
          /\ installed[m].list # <<>>
          /\ methods[m].instructions = installed[m].list

Self == 32

\* C35: in a frame with no receiver, ldarg this pushes the null Value: its
\* variant is null and it converts to false, so the brtrue of Self does not
\* branch on it and Self returns 0.
C35_ThisOfStaticFrameIsNull ==
    /\ \A f \in DOMAIN callStack :
          (callStack[f].method = Self /\ callStack[f].this = NullObject
                /\ callStack[f].stack # <<>> /\ callStack[f].ip = 1) =>
             /\ Last(callStack[f].stack) = Null
             /\ ~ValueToBool(Last(callStack[f].stack))
    /\ lastReturn.method = Self => lastReturn.value = Int32V(0)

\* C36: add with a string on either side pushes the concatenation of the
\* display strings of the left and the right operand, whatever the variant of
\* the other operand, and does not fail.
C36_AddConcatenatesDisplayStrings ==
    (evaluated.op = "Add" /\ (IsString(operands[1]) \/ IsString(operands[2]))) =>
        evaluated.outcome
            = Push(StrV(ValueToString(operands[1]) \o ValueToString(operands[2])))

\* the variant the numeric rule gives the result of two numeric operands
ResultVariant(left, right) ==
    IF left.t = "int32" /\ right.t = "int32" THEN "int32"
    ELSE IF left.t = "int64" \/ right.t = "int64" THEN "int64"
    ELSE "float64"

\* left op right, on integers and on doubles
IntegerResult(op, l, r) ==
    CASE op = "Add" -> l + r
      [] op = "Sub" -> l - r
      [] op = "Mul" -> l * r
      [] OTHER      -> CDiv(l, r)

DoubleResult(op, l, r) ==
    CASE op = "Add" -> RAdd(l, r)
      [] op = "Sub" -> RSub(l, r)
      [] op = "Mul" -> RMul(l, r)
      [] OTHER      -> RDiv(l, r)

\* C37: add, sub, mul and div of two numeric operands that push a result push
\* int32 exactly when both operands are int32, int64 when at least one is int64
\* (both converted to int64), and float64 otherwise; the value is left op right.
C37_NumericResultVariant ==
    (/\ evaluated.op \in {"Add", "Sub", "Mul", "Div"}
     /\ IsNumeric(operands[1]) /\ IsNumeric(operands[2])
     /\ Operate(evaluated.op, operands).kind = "push") =>
        /\ evaluated.outcome.kind = "push"
        /\ evaluated.outcome.v.t = ResultVariant(operands[1], operands[2])
        /\ evaluated.outcome.v.t = "int32" <=>
              (operands[1].t = "int32" /\ operands[2].t = "int32")
        /\ IF evaluated.outcome.v.t = "float64"
           THEN evaluated.outcome.v
                  = Float64V(DoubleResult(evaluated.op, AsRational(operands[1]),
                                          AsRational(operands[2])))
           ELSE evaluated.outcome.v.i
                  = IntegerResult(evaluated.op, ValueToInt64(operands[1]).n,
                                  ValueToInt64(operands[2]).n)

\* C37 witness: int64 3 minus float32 7 gave int64 -4
C37_Int64MinusFloat32 ==
    /\ evaluated.op = "Sub"
    /\ operands = <<Int64V(3), Float32V(Rational(7, 1))>>
    /\ evaluated.outcome = Push(Int64V(0 - 4))

\* each two-operand branch with the comparison opcode it corresponds to
BranchPairs ==
    {<<"Beq", "Ceq">>, <<"Bne", "Cne">>, <<"Bgt", "Cgt">>, <<"Blt", "Clt">>,
     <<"Bge", "Cge">>, <<"Ble", "Cle">>}

\* C38: on every pair of operand values a two-operand branch is taken exactly
\* when the corresponding comparison opcode on the same left and right operand
\* pushes true, and fails exactly when that comparison fails.
C38_BranchAgreesWithComparison ==
    \A pair \in BranchPairs :
        /\ evaluated.op = pair[1] =>
              With(Comparison(pair[2], operands[1], operands[2]), LAMBDA c :
                  /\ (evaluated.outcome.kind = "error") <=> (c.kind = "error")
                  /\ evaluated.taken <=> (c = Push(BoolV(TRUE))))
        /\ evaluated.op = pair[2] =>
              With(CompareBranch(pair[1], operands[1], operands[2]), LAMBDA b :
                  /\ (evaluated.outcome.kind = "error") <=> ~b.ok
                  /\ (evaluated.outcome = Push(BoolV(TRUE))) <=> (b.ok /\ b.cond))

\* C38 witness: bge was taken on float32 7 and int32 7
C38_BgeTakenOnFloatAndInt ==
    /\ evaluated.op = "Bge"
    /\ operands = <<Float32V(Rational(7, 1)), Int32V(7)>>
    /\ evaluated.taken

\* C39: neg of a numeric operand pushes one value of the operand's variant, and
\* neg of an operand of any other variant fails instead of completing with
\* nothing pushed.
C39_NegKeepsVariantOrFails ==
    evaluated.op = "Neg" =>
        IF IsNumeric(operands[2])
        THEN /\ evaluated.outcome.kind = "push"
             /\ evaluated.outcome.v.t = operands[2].t
        ELSE evaluated.outcome.kind = "error"

\* C40: rem with an integer zero on the right ends in a reported error, as div
\* does; rem of two integers with a non-zero right operand pushes left modulo
\* right as int32 or int64; rem of any other pair of operands fails.
C40_RemByZeroFailsAsDiv ==
    evaluated.op = "Rem" =>
        IF IsInteger(operands[1]) /\ IsInteger(operands[2])
        THEN IF operands[2].i = 0
             THEN evaluated.outcome = BinaryArithmetic("Div", operands[1], operands[2])
             ELSE evaluated.outcome
                    = Push([Int32V(CRem(operands[1].i, operands[2].i)) EXCEPT
                              !.t = ResultVariant(operands[1], operands[2])])
        ELSE evaluated.outcome.kind = "error"
====
